--------------------------- MODULE RtpChannelProofs ---------------------------
(***************************************************************************)
(* A channel, for any stream, any other sources and all sizes: composed of *)
(* what PacketSortorProofs shows of the reorder buffer and                 *)
(* NackContextProofs of the NACK state.                                    *)
(***************************************************************************)
EXTENDS RtpChannel, FiniteSetTheorems, TLAPS

Sorted == INSTANCE PacketSortorProofs
(* The history of NackRequests plays no part here.                         *)
Nacked == INSTANCE NackContextProofs WITH watched <- 0, request <- 0

(* What PacketSortor asks of its constants. *)
LEMMA SortorConstants ==
  /\ SeqMod \in Nat /\ MaxDistance \in Nat \ {0} /\ MaxBufferSize \in Nat \ {0}
  /\ 4 * MaxDistance < SeqMod
  BY ChannelAssumption

(* The buffer is the same, whichever module it is instantiated through. *)
LEMMA SameSortPacket ==
  ASSUME NEW n, Sortor!SortPacket(n)
  PROVE  Sorted!SortPacket(n)
<1>1. \A last : Sortor!NextSeq(last) = Sorted!NextSeq(last)
  BY DEF Sortor!NextSeq, Sorted!NextSeq
<1>2. \A last, seq : Sortor!Distance(last, seq) = Sorted!Distance(last, seq)
  BY <1>1 DEF Sortor!Distance, Sorted!Distance, Sortor!SeqMax, Sorted!SeqMax
<1>3. \A from, to : Sortor!MayLooped(from, to) = Sorted!MayLooped(from, to)
  BY DEF Sortor!MayLooped, Sorted!MayLooped, Sortor!SeqMax, Sorted!SeqMax
<1>4. \A c, next : Sortor!Kept(c, next) = Sorted!Kept(c, next)
  BY <1>3 DEF Sortor!Kept, Sorted!Kept
<1>5. \A c, next : Sortor!FirstGap(c, next) = Sorted!FirstGap(c, next)
  BY DEF Sortor!FirstGap, Sorted!FirstGap
<1>6. \A c, next : Sortor!FlushTarget(c, next) = Sorted!FlushTarget(c, next)
  BY DEF Sortor!FlushTarget, Sorted!FlushTarget
<1>7. \A from, to : Sortor!Numbers(from, to) = Sorted!Numbers(from, to)
  BY DEF Sortor!Numbers, Sorted!Numbers
<1>8. \A c, seq : Sortor!Emit(c, seq) = Sorted!Emit(c, seq)
  BY <1>1, <1>4, <1>5, <1>7 DEF Sortor!Emit, Sorted!Emit
<1>9. \A c, next : Sortor!ForceFlush(c, next) = Sorted!ForceFlush(c, next)
  BY <1>2, <1>6, <1>8 DEF Sortor!ForceFlush, Sorted!ForceFlush
<1>10. \A c, last, seq : Sortor!NeedForceFlush(c, last, seq) = Sorted!NeedForceFlush(c, last, seq)
  <2>1. \A c : Sortor!Cardinality(c) = Sorted!Cardinality(c)
    BY DEF Sortor!Cardinality, Sorted!Cardinality
  <2>2. QED
    BY <1>2, <2>1 DEF Sortor!NeedForceFlush, Sorted!NeedForceFlush
<1>11. \A seq : Sortor!Base(seq) = Sorted!Base(seq) /\ Sortor!IsOld(seq) = Sorted!IsOld(seq)
  BY <1>1, <1>3 DEF Sortor!Base, Sorted!Base, Sortor!IsOld, Sorted!IsOld
<1>12. QED
  BY <1>1, <1>8, <1>9, <1>10, <1>11
  DEF Sortor!SortPacket, Sortor!OutputNext, Sortor!DropOld, Sortor!Buffer, Sortor!Apply,
      Sorted!SortPacket, Sorted!OutputNext, Sorted!DropOld, Sorted!Buffer, Sorted!Apply

LEMMA SameElapse == Sortor!Elapse => Sorted!Elapse
  BY DEF Sortor!Elapse, Sorted!Elapse

LEMMA SameInit == Sortor!Init => Sorted!Init
  BY DEF Sortor!Init, Sorted!Init

(* What is shown of the buffer alone, of one call and of its first state. *)
LEMMA SortedStep ==
  ASSUME Sorted!Inv, NEW n \in 0 .. SeqMod - 1, Sortor!SortPacket(n)
  PROVE  Sorted!Inv' /\ cache' \subseteq cache \union {n}
           /\ \A i \in DOMAIN out' : out'[i] \in cache \union {n}
<1>1. Sorted!SortPacket(n) /\ n \in Sorted!Seqs
  BY SameSortPacket DEF Sorted!Seqs
<1>2. Sorted!Inv'
  <2>1. Sorted!Next
    BY <1>1 DEF Sorted!Next
  <2>2. QED
    BY <2>1, SortorConstants, Sorted!NextInv
<1>3. cache' \union Sorted!Emitted \subseteq cache \union {n}
  BY <1>1, SortorConstants, Sorted!NothingIsMadeUp
<1>4. QED
  BY <1>2, <1>3 DEF Sorted!Emitted

LEMMA SortedFrame ==
  ASSUME Sorted!Inv, Sortor!Elapse \/ UNCHANGED sortVars
  PROVE  Sorted!Inv'
<1>1. Sorted!Next \/ UNCHANGED Sorted!sortVars
  BY SameElapse DEF Sorted!Next, sortVars, Sorted!sortVars
<1>2. QED
  BY <1>1, SortorConstants, Sorted!NextInv DEF Sorted!sortVars

-----------------------------------------------------------------------------
(* Beside the buffer's invariant: held describes the map, and when the     *)
(* NACKs are due the last call handed out nothing.                         *)
IInv ==
  /\ Sorted!Inv
  /\ DOMAIN held = cache
  /\ nackDue => output = <<>>

LEMMA InitInv == Init => IInv
<1>1. Init => Sorted!Inv
  BY SortorConstants, SameInit, Sorted!InitInv DEF Init
<1>2. QED
  BY <1>1 DEF Init, IInv, Sortor!Init

(* The number of a packet is in the number space. *)
LEMMA NumberType == \A p \in Nat : Number(p) \in 0 .. SeqMod - 1
  BY ChannelAssumption, SortorConstants DEF Number

(* Sorting a packet keeps the invariant.                                   *)
LEMMA SortKeeps ==
  ASSUME IInv, NEW n \in 0 .. SeqMod - 1, NEW p, Sort(n, p)
  PROVE  Sorted!Inv' /\ DOMAIN held' = cache'
  BY SortedStep DEF IInv, Sort

(* So does every step.                                                     *)
LEMMA NextInv ==
  ASSUME IInv, [Next]_vars
  PROVE  IInv'
<1>1. ASSUME NEW p \in 1 .. LastPacket, Arrive(p) \/ ArriveRtx(p) PROVE IInv'
  <2>1. Sort(Number(p), p) /\ nackDue' = FALSE
    BY <1>1 DEF Arrive, ArriveRtx, Process
  <2>2. Number(p) \in 0 .. SeqMod - 1
    BY NumberType, ChannelAssumption
  <2>3. QED
    BY <2>1, <2>2, SortKeeps DEF IInv
<1>2. ASSUME NEW id \in Others, NEW n \in OtherNumbers, ForeignAccepted(id, n)
      PROVE  IInv'
  <2>1. Sort(n, 0) /\ nackDue' = FALSE
    BY <1>2 DEF ForeignAccepted, Process
  <2>2. n \in 0 .. SeqMod - 1
    BY ChannelAssumption
  <2>3. QED
    BY <2>1, <2>2, SortKeeps DEF IInv
<1>3. CASE Tick \/ Stall
  <2>1. Sorted!Inv'
    BY <1>3, SortedFrame DEF Tick, Stall, IInv
  <2>2. UNCHANGED <<held, cache>> /\ output' = <<>>
    BY <1>3 DEF Tick, Stall, sortVars, Sortor!Elapse
  <2>3. QED
    BY <2>1, <2>2 DEF IInv
<1>4. CASE Silence
  <2>1. nackDue /\ UNCHANGED <<sortVars, nackDue, held, output>>
    BY <1>4 DEF Silence, streamVars
  <2>2. Sorted!Inv'
    BY <2>1, SortedFrame DEF IInv
  <2>3. QED
    BY <2>1, <2>2 DEF IInv, sortVars
<1>5. CASE UNCHANGED vars
  <2>1. Sorted!Inv'
    BY <1>5, SortedFrame DEF IInv, vars
  <2>2. QED
    BY <1>5, <2>1 DEF IInv, vars, sortVars, trackVars, streamVars
<1>6. ASSUME NEW id \in Others, ForeignDropped(id) PROVE UNCHANGED vars
  BY <1>6 DEF ForeignDropped
<1>7. QED
  BY <1>1, <1>2, <1>3, <1>4, <1>5, <1>6 DEF Next

(* The invariant holds of every channel. *)
THEOREM Invariants == Spec => []IInv
<1>1. IInv /\ [Next]_vars => IInv'
  BY NextInv
<1>2. QED
  BY <1>1, InitInv, PTL DEF Spec

(* The buffer of a channel is bounded, whatever arrives from any source in *)
(* any order: what PacketSortorProofs shows of the buffer holds in it.     *)
THEOREM ChannelBufferIsBounded == Spec => []Sorted!BufferBound
<1>1. IInv => Sorted!BufferBound
  BY DEF IInv, Sorted!Inv
<1>2. QED
  BY <1>1, Invariants, PTL

-----------------------------------------------------------------------------
(* The NACK state of a channel                                             *)

(* What NackContext asks of its constants. *)
LEMMA NackConstants ==
  /\ {SeqMod, BitSize, MaxNack, WrapWindow, NackMaxSize} \subseteq Nat \ {0}
  /\ {NackMaxMS, NackRtpSize} \subseteq Nat
  /\ NackMaxCount \in Nat \ {0, 1}
  /\ RttMin \in Nat /\ RttInit \in RttMin .. RttMax /\ RttMax \in Nat
  BY ChannelAssumption

(* Its methods are the same, whichever module they are instantiated        *)
(* through.                                                                *)
LEMMA SameReceived ==
  ASSUME NEW n, NEW s, NEW isRtx
  PROVE  Nack!Received(n, s, isRtx) = Nacked!Received(n, s, isRtx)
  BY Zenon
  DEF Nack!Received, Nacked!Received, Nack!ReceiveNew, Nacked!ReceiveNew,
      Nack!Recovered, Nacked!Recovered, Nack!Wrapped, Nacked!Wrapped,
      Nack!ClearNackStatus, Nacked!ClearNackStatus, Nack!MakeNack, Nacked!MakeNack,
      Nack!MakeNackTurn, Nacked!MakeNackTurn, Nack!FciCount, Nacked!FciCount,
      Nack!FciNack, Nacked!FciNack, Nack!EraseFrontSeq, Nacked!EraseFrontSeq,
      Nack!Record, Nacked!Record, Nack!Result, Nacked!Result,
      Nack!Smallest, Nacked!Smallest, Nack!Largest, Nacked!Largest,
      Nack!SeqMax, Nacked!SeqMax, Nack!Cardinality, Nacked!Cardinality

LEMMA SameReSendNack ==
  ASSUME NEW n
  PROVE  Nack!ReSendNack(n) = Nacked!ReSendNack(n)
  BY Zenon DEF Nack!ReSendNack, Nacked!ReSendNack, Nack!Result, Nacked!Result

LEMMA SameOlder ==
  ASSUME NEW n
  PROVE  Nack!Older(n) = Nacked!Older(n)
  BY Zenon DEF Nack!Older, Nacked!Older

LEMMA SameNackTypes == Nack!TypeOK <=> Nacked!TypeOK
  BY DEF Nack!TypeOK, Nacked!TypeOK, Nack!Cardinality, Nacked!Cardinality,
         Nack!Seqs, Nacked!Seqs, Nack!NackStatus, Nacked!NackStatus

(* At first the NACK state is the one NackContextProofs starts from.       *)
LEMMA NackInitInv == Init => Nacked!IInv
<1>1. Nack!Init => Nacked!Init
  BY DEF Nack!Init, Nacked!Init, Nack!EmptyNack, Nacked!EmptyNack
<1>2. QED
  BY <1>1, NackConstants, Nacked!InitInv DEF Init

(* A call of inputRtp runs received() and, when it is due, reSendNack().    *)
NackStep(n, isRtx) ==
  LET r == Nack!Received(nack, n, isRtx)
      a == Nack!ReSendNack(r.ctx)
  IN  Nack!Become(IF nackDue THEN [a EXCEPT !.asks = a.asks \union r.asks] ELSE r)

LEMMA NackKeeps ==
  ASSUME Nacked!IInv, NEW n \in 0 .. SeqMod - 1, NEW isRtx \in BOOLEAN, NackStep(n, isRtx)
  PROVE  Nacked!IInv'
<1> DEFINE r == Nacked!Received(nack, n, isRtx)
           a == Nacked!ReSendNack(r.ctx)
<1>1. nack \in Nacked!Contexts /\ n \in Nacked!Seqs
  BY DEF Nacked!IInv, Nacked!Seqs
<1>2. r \in Nacked!Results
  BY <1>1, NackConstants, Nacked!ReceivedProperty
<1>3. r.ctx \in Nacked!Contexts /\ r.asks \in SUBSET Nacked!Seqs
  BY <1>2 DEF Nacked!Results
<1>4. a \in Nacked!Results
  BY <1>3, NackConstants, Nacked!ReSendType
<1>5. [a EXCEPT !.asks = a.asks \union r.asks] \in Nacked!Results
  BY <1>3, <1>4 DEF Nacked!Results
<1>6. Nack!Become(IF nackDue THEN [a EXCEPT !.asks = a.asks \union r.asks] ELSE r)
  BY SameReceived, SameReSendNack DEF NackStep
<1> HIDE DEF r, a
<1>7. PICK x \in Nacked!Results : nack' = x.ctx /\ asks' = x.asks
  BY <1>2, <1>5, <1>6 DEF Nack!Become
<1>8. QED
  BY <1>7 DEF Nacked!Results, Nacked!IInv

-----------------------------------------------------------------------------
(* Which packets of the stream the channel holds, has output and asks for  *)
Stream ==
  /\ newest \in Nat
  /\ \A n \in cache : held[n] # 0 => held[n] \in 1 .. newest /\ Number(held[n]) = n
  /\ delivered \in 0 .. newest
  /\ askedFor \subseteq 1 .. newest

(* A call hands out packets of the stream up to the newest, and holds such *)
(* packets under their numbers.                                            *)
LEMMA SortKeepsStream ==
  ASSUME IInv, Stream, NEW p \in Nat, NEW n \in 0 .. SeqMod - 1, Sort(n, p),
         p # 0 => n = Number(p), newest' = Newest(p)
  PROVE  /\ newest' \in Nat /\ newest <= newest'
         /\ \A k \in cache' : held'[k] # 0 => held'[k] \in 1 .. newest' /\ Number(held'[k]) = k
         /\ delivered' \in 0 .. newest'
<1> DEFINE inBuffer == [k \in DOMAIN held \union {n} |-> IF k \in DOMAIN held THEN held[k] ELSE p]
           direct   == n = Sortor!NextSeq(Sortor!Base(n))
           own      == {i \in DOMAIN output' : output'[i] # 0}
<1>1. newest' \in Nat /\ newest <= newest' /\ (p # 0 => p \in 1 .. newest')
  BY DEF Stream, Newest
<1>2. DOMAIN held = cache
  BY DEF IInv
<1>3. \A k \in DOMAIN inBuffer : inBuffer[k] # 0 =>
        inBuffer[k] \in 1 .. newest' /\ Number(inBuffer[k]) = k
  <2>1. ASSUME NEW k \in cache, held[k] # 0
        PROVE  held[k] \in 1 .. newest' /\ Number(held[k]) = k
    BY <1>1, <2>1 DEF Stream
  <2>2. QED
    BY <1>1, <1>2, <2>1
<1>4. /\ cache' \subseteq DOMAIN inBuffer
      /\ \A i \in DOMAIN out' : out'[i] \in DOMAIN inBuffer
  BY <1>2, SortedStep DEF IInv, Sort
<1>5. out' \in Seq(Sorted!Seqs)
  BY SortedStep DEF IInv, Sort, Sorted!Inv, Sorted!TypeOK
<1>6. /\ held' = [k \in cache' |-> inBuffer[k]]
      /\ output' = [i \in DOMAIN out' |-> IF i = 1 /\ direct THEN p ELSE inBuffer[out'[i]]]
      /\ delivered' = IF own = {} THEN delivered
                      ELSE output'[CHOOSE i \in own : \A j \in own : j <= i]
  BY DEF Sort
<1> HIDE DEF inBuffer, direct
<1>7. \A k \in cache' : held'[k] # 0 => held'[k] \in 1 .. newest' /\ Number(held'[k]) = k
  BY <1>3, <1>4, <1>6
<1>8. \A i \in DOMAIN output' : output'[i] # 0 => output'[i] \in 1 .. newest'
  BY <1>1, <1>3, <1>4, <1>6
<1>9. own # {} => \E i \in own : \A j \in own : j <= i
  <2>1. Len(out') \in Nat /\ own \in SUBSET (0 .. Len(out'))
    BY <1>5, <1>6
  <2>2. QED
    BY <2>1, NackConstants, Nacked!LargestElement
<1>10. own # {} => delivered' \in 1 .. newest'
  BY <1>6, <1>8, <1>9
<1>11. delivered' \in 0 .. newest'
  <2>1. CASE own # {}
    BY <1>1, <1>10, <2>1
  <2>2. CASE own = {}
    <3>1. delivered' = delivered
      BY <1>6, <2>2
    <3>2. QED
      BY <1>1, <3>1 DEF Stream
  <2>3. QED
    BY <2>1, <2>2
<1>12. QED
  BY <1>1, <1>7, <1>11

(* Every step keeps the NACK state and the picture of the stream.          *)
LEMMA ProcessKeeps ==
  ASSUME IInv, Nacked!IInv, Stream, NEW p \in Nat, NEW n \in 0 .. SeqMod - 1,
         NEW isRtx \in BOOLEAN, Process(n, p, isRtx), p # 0 => n = Number(p)
  PROVE  Nacked!IInv' /\ Stream'
<1>1. Nacked!IInv'
  <2>1. NackStep(n, isRtx)
    BY DEF Process, NackStep
  <2>2. QED
    BY <2>1, NackKeeps
<1>2. newest' = Newest(p) /\ Sort(n, p) /\ askedFor' = askedFor \union Meant(asks', p)
  BY DEF Process
<1>3. /\ newest' \in Nat /\ newest <= newest'
      /\ \A k \in cache' : held'[k] # 0 => held'[k] \in 1 .. newest' /\ Number(held'[k]) = k
      /\ delivered' \in 0 .. newest'
  BY <1>2, SortKeepsStream
<1>4. askedFor' \subseteq 1 .. newest'
  <2>1. Meant(asks', p) \subseteq 1 .. newest'
    BY <1>2 DEF Meant
  <2>2. 1 .. newest \subseteq 1 .. newest'
    BY <1>3 DEF Stream
  <2>3. QED
    BY <1>2, <2>1, <2>2 DEF Stream
<1>5. QED
  BY <1>1, <1>3, <1>4 DEF Stream, Number

LEMMA NackAndStreamInv ==
  ASSUME IInv, Nacked!IInv, Stream, [Next]_vars
  PROVE  Nacked!IInv' /\ Stream'
<1>1. ASSUME NEW p \in 1 .. LastPacket, Arrive(p) \/ ArriveRtx(p) PROVE Nacked!IInv' /\ Stream'
  <2>1. PICK isRtx \in BOOLEAN : Process(Number(p), p, isRtx)
    BY <1>1 DEF Arrive, ArriveRtx
  <2>2. p \in Nat /\ Number(p) \in 0 .. SeqMod - 1
    BY NumberType, ChannelAssumption
  <2>3. QED
    BY <2>1, <2>2, ProcessKeeps
<1>2. ASSUME NEW id \in Others, NEW n \in OtherNumbers, ForeignAccepted(id, n)
      PROVE  Nacked!IInv' /\ Stream'
  <2>1. Process(n, 0, FALSE) /\ n \in 0 .. SeqMod - 1
    BY <1>2, ChannelAssumption DEF ForeignAccepted
  <2>2. QED
    BY <2>1, ProcessKeeps
<1>3. CASE Tick
  <2>1. Nacked!Older(nack) \in Nacked!Contexts
    BY NackConstants, Nacked!OlderType DEF Nacked!IInv
  <2>2. nack' = Nacked!Older(nack) /\ asks' = {}
    BY <1>3, SameOlder DEF Tick
  <2>3. UNCHANGED <<cache, held, newest, delivered, askedFor>>
    BY <1>3 DEF Tick, sortVars
  <2>4. QED
    BY <2>1, <2>2, <2>3 DEF Nacked!IInv, Stream, Number
<1>4. CASE Stall
  <2>1. UNCHANGED <<nack, cache, held, newest, delivered, askedFor>> /\ asks' = {}
    BY <1>4 DEF Stall, Sortor!Elapse
  <2>2. QED
    BY <2>1 DEF Nacked!IInv, Stream, Number
<1>5. CASE Silence \/ UNCHANGED vars
  <2>1. UNCHANGED <<nack, asks, cache, held, newest, delivered, askedFor>>
    BY <1>5 DEF Silence, vars, sortVars, nackVars, streamVars
  <2>2. QED
    BY <2>1 DEF Nacked!IInv, Stream, Number
<1>6. ASSUME NEW id \in Others, ForeignDropped(id) PROVE UNCHANGED vars
  BY <1>6 DEF ForeignDropped
<1>7. QED
  BY <1>1, <1>2, <1>3, <1>4, <1>5, <1>6 DEF Next

(* They hold of every channel.                                             *)
LEMMA StreamHolds == Spec => [](Nacked!IInv /\ Stream)
<1>1. Init => Nacked!IInv /\ Stream
  <2>1. Init => cache = {}
    BY DEF Init, Sortor!Init
  <2>2. QED
    BY <2>1, NackInitInv DEF Init, Stream
<1>2. IInv /\ (Nacked!IInv /\ Stream) /\ [Next]_vars => (Nacked!IInv /\ Stream)'
  BY NackAndStreamInv
<1>3. QED
  BY <1>1, <1>2, Invariants, PTL DEF Spec

(* Buffer, NACK state and the picture of the stream keep their types, for  *)
(* any losses, reordering, retransmissions, pauses and other sources: what *)
(* waits under a number is a packet of that number that has arrived, and   *)
(* nothing is output or asked for that is newer than the newest arrival.   *)
THEOREM ChannelTypeCorrect == Spec => []TypeOK
<1>1. IInv /\ Nacked!IInv /\ Stream => TypeOK
  <2> SUFFICES ASSUME IInv, Nacked!IInv, Stream PROVE TypeOK
    OBVIOUS
  <2>1. Sortor!TypeOK
    BY DEF IInv, Sorted!Inv, Sorted!TypeOK, Sortor!TypeOK, Sorted!Seqs, Sortor!Seqs
  <2>2. Nack!TypeOK
    BY NackConstants, SameNackTypes, Nacked!InvTypes
  <2>3. QED
    BY <2>1, <2>2 DEF TypeOK, IInv, Stream
<1>2. QED
  BY <1>1, StreamHolds, Invariants, PTL
-----------------------------------------------------------------------------
(* In order: where the packets of the stream sit in the numbers            *)

(* Division with remainder.                                                *)
LEMMA Remainder ==
  ASSUME NEW m \in Nat \ {0}, NEW x \in Nat, NEW d \in Int, NEW r \in 0 .. m - 1,
         x = d * m + r
  PROVE  x % m = r
  OBVIOUS

LEMMA Division ==
  ASSUME NEW m \in Nat \ {0}, NEW x \in Nat
  PROVE  \E d \in Int, r \in 0 .. m - 1 : x = d * m + r
<1>1. m \in Int /\ m > 0 /\ x \in Int
  OBVIOUS
<1>2. x = m * (x \div m) + (x % m)
  BY <1>1, Z3
<1>3. x \div m \in Int /\ x % m \in 0 .. m - 1
  OBVIOUS
<1>4. m * (x \div m) = (x \div m) * m
  BY <1>1, <1>3
<1>5. QED
  BY <1>2, <1>3, <1>4

(* The number of a packet, counted from an earlier one.                    *)
LEMMA NumberAhead ==
  ASSUME NEW a \in Nat, NEW b \in Nat, a <= b, b - a < SeqMod
  PROVE  /\ Number(a) \in 0 .. SeqMod - 1 /\ Number(b) \in 0 .. SeqMod - 1
         /\ Number(b) = IF Number(a) + (b - a) < SeqMod THEN Number(a) + (b - a)
                        ELSE Number(a) + (b - a) - SeqMod
<1>1. SeqMod \in Nat \ {0} /\ Start \in Nat
  BY ChannelAssumption
<1>2. Start + a \in Nat /\ Start + b \in Nat /\ Start + b = (Start + a) + (b - a)
  BY <1>1
<1>3. PICK d \in Int, r \in 0 .. SeqMod - 1 : Start + a = d * SeqMod + r
  BY <1>1, <1>2, Division
<1>4. Number(a) = r
  BY <1>1, <1>2, <1>3, Remainder DEF Number
<1>5. CASE r + (b - a) < SeqMod
  <2>1. r + (b - a) \in 0 .. SeqMod - 1 /\ Start + b = d * SeqMod + (r + (b - a))
    BY <1>1, <1>2, <1>3, <1>5
  <2>2. Number(b) = r + (b - a)
    BY <1>1, <1>2, <2>1, Remainder DEF Number
  <2>3. QED
    BY <1>4, <1>5, <2>1, <2>2
<1>6. CASE ~(r + (b - a) < SeqMod)
  <2>1. /\ r + (b - a) - SeqMod \in 0 .. SeqMod - 1 /\ d + 1 \in Int
        /\ Start + b = (d + 1) * SeqMod + (r + (b - a) - SeqMod)
    BY <1>1, <1>2, <1>3, <1>6
  <2>2. Number(b) = r + (b - a) - SeqMod
    BY <1>1, <1>2, <2>1, Remainder DEF Number
  <2>3. QED
    BY <1>4, <1>6, <2>1, <2>2
<1>7. QED
  BY <1>5, <1>6

(* How far sortPacket takes a packet ahead of the position to be: the      *)
(* packets between, or one less over a wrap.                               *)
LEMMA DistanceByCount ==
  ASSUME NEW a \in Nat, NEW x \in a + 1 .. a + Reach
  PROVE  Sorted!Distance(Number(a), Number(x)) =
           IF Number(a) + (x - a) < SeqMod \/ Number(a) = SeqMod - 1 THEN x - a - 1
           ELSE x - a - 2
<1>1. SeqMod \in Nat \ {0} /\ Reach \in Nat /\ 2 * Reach <= SeqMod
  BY ChannelAssumption
<1>2. x \in Nat /\ a <= x /\ x - a < SeqMod /\ x - a <= Reach /\ x - a >= 1
  BY <1>1
<1>3. /\ Number(a) \in 0 .. SeqMod - 1
      /\ Number(x) = IF Number(a) + (x - a) < SeqMod THEN Number(a) + (x - a)
                     ELSE Number(a) + (x - a) - SeqMod
  BY <1>2, NumberAhead
<1> DEFINE next == Sorted!NextSeq(Number(a))
<1>4. next = IF Number(a) = SeqMod - 1 THEN 0 ELSE Number(a) + 1
  BY <1>3, SortorConstants, Sorted!NextSeqType DEF Sorted!Seqs, Sorted!SeqMax
<1> HIDE DEF next
<1> DEFINE ret == IF Number(x) > next THEN Number(x) - next ELSE next - Number(x)
<1>5. Sorted!Distance(Number(a), Number(x)) =
        IF ret > (SeqMod - 1) \div 2 THEN SeqMod - 1 - ret ELSE ret
  BY DEF Sorted!Distance, Sorted!SeqMax, next
<1>6. CASE Number(a) + (x - a) < SeqMod \/ Number(a) = SeqMod - 1
  <2>1. ret = x - a - 1
    BY <1>1, <1>2, <1>3, <1>4, <1>6
  <2>2. ~(ret > (SeqMod - 1) \div 2)
    BY <1>1, <1>2, <2>1
  <2>3. QED
    BY <1>5, <1>6, <2>1, <2>2
<1>7. CASE ~(Number(a) + (x - a) < SeqMod \/ Number(a) = SeqMod - 1)
  <2>1. ret = SeqMod + 1 - (x - a)
    BY <1>1, <1>2, <1>3, <1>4, <1>7
  <2>2. ret > (SeqMod - 1) \div 2
    BY <1>1, <1>2, <2>1
  <2>3. QED
    BY <1>1, <1>2, <1>5, <1>7, <2>1, <2>2
<1>8. QED
  BY <1>6, <1>7

(* So what is output brings every later packet closer.                     *)
LEMMA CloserByDelivery ==
  ASSUME NEW a \in Nat, NEW x \in a + 1 .. a + Reach, NEW b \in a + 1 .. x - 1
  PROVE  Sorted!Distance(Number(b), Number(x)) <= Sorted!Distance(Number(a), Number(x))
<1>1. SeqMod \in Nat \ {0} /\ Reach \in Nat /\ 2 * Reach <= SeqMod
  BY ChannelAssumption
<1>2. b \in Nat /\ x \in b + 1 .. b + Reach /\ a <= b /\ b - a < SeqMod
  BY <1>1
<1>3. /\ Number(a) \in 0 .. SeqMod - 1
      /\ Number(b) = IF Number(a) + (b - a) < SeqMod THEN Number(a) + (b - a)
                     ELSE Number(a) + (b - a) - SeqMod
  BY <1>2, NumberAhead
<1>4. /\ Sorted!Distance(Number(a), Number(x)) =
           IF Number(a) + (x - a) < SeqMod \/ Number(a) = SeqMod - 1 THEN x - a - 1
           ELSE x - a - 2
      /\ Sorted!Distance(Number(b), Number(x)) =
           IF Number(b) + (x - b) < SeqMod \/ Number(b) = SeqMod - 1 THEN x - b - 1
           ELSE x - b - 2
  BY <1>2, DistanceByCount
<1>5. QED
  BY <1>1, <1>2, <1>3, <1>4

(* A map, with the packet each number stands for, that holds packets after *)
(* q and, possibly, one under 0 that does not matter.                      *)
HoldsAfter(c, h, q) ==
  \A s \in c : \/ h[s] \in q + 1 .. q + Reach /\ Number(h[s]) = s
               \/ s = 0 /\ Number(q) # SeqMod - 1

(* q and the k packets right after it come out of it, and what stays comes *)
(* after those; one under 0 stays only where the position is near a wrap.  *)
RunsTo(c, h, q, k) ==
  LET e == Sorted!Emit(c, Number(q))
  IN  /\ k = 0 \/ k <= Reach
      /\ k = 0 \/ Number(q) = SeqMod - 1 \/ Number(q) + k < SeqMod
      /\ e.last = Number(q + k)
      /\ Len(e.out) = k + 1 /\ e.out[1] = Number(q)
      /\ \A i \in 1 .. k : e.out[i + 1] \in c /\ h[e.out[i + 1]] = q + i
      /\ \A s \in e.cache :
           /\ s \in c
           /\ h[s] \in q + 1 .. q + Reach /\ Number(h[s]) = s => h[s] > q + k
           /\ s = 0 /\ Number(q) # SeqMod - 1 =>
                \/ Number(q) + 1 > SeqMod - 1 - MaxDistance
                \/ Number(q) + 1 < MaxDistance

(* output() and flushPacket() for packet q.                                *)
LEMMA EmitInOrder ==
  ASSUME NEW q \in Nat, NEW c \in SUBSET Sorted!Seqs, NEW h, HoldsAfter(c, h, q)
  PROVE  \E k \in Nat : RunsTo(c, h, q, k)
<1> DEFINE e == Sorted!Emit(c, Number(q))
           n == Number(q)
           next == Sorted!NextSeq(n)
<1>1. SeqMod \in Nat \ {0} /\ Reach \in Nat /\ 2 * Reach <= SeqMod
  BY ChannelAssumption
<1>2. n \in 0 .. SeqMod - 1 /\ n \in Sorted!Seqs
  BY NumberType DEF Sorted!Seqs
<1>3. next = IF n = SeqMod - 1 THEN 0 ELSE n + 1
  BY <1>2, SortorConstants, Sorted!NextSeqType DEF Sorted!SeqMax
<1>4. PICK k \in Nat :
        /\ next + k <= SeqMod
        /\ \A j \in 0 .. k - 1 : next + j \in c
        /\ e.last = IF k = 0 THEN n ELSE next + k - 1
        /\ Len(e.out) = k + 1 /\ e.out[1] = n
        /\ \A i \in 1 .. k : e.out[i + 1] = next + i - 1
        /\ \A s \in e.cache : /\ s \in c /\ s \notin next .. next + k - 1
                              /\ s >= next \/ Sorted!MayLooped(next, next)
  BY <1>2, SortorConstants, Sorted!EmitRuns
<1> HIDE DEF e, next
(* Where a packet after q sits.                                            *)
<1>5. ASSUME NEW x \in q + 1 .. q + Reach
      PROVE  Number(x) = IF n + (x - q) < SeqMod THEN n + (x - q) ELSE n + (x - q) - SeqMod
  <2>1. x \in Nat /\ q <= x /\ x - q < SeqMod
    BY <1>1
  <2>2. QED
    BY <2>1, NumberAhead
<1> HIDE DEF n
<1>6. ASSUME NEW j \in 0 .. k - 1 PROVE h[next + j] = q + j + 1 /\ j + 1 <= Reach
  <2>1. next + j \in c /\ next + j < SeqMod
    BY <1>1, <1>3, <1>4, <1>2
  <2>2. ~(next + j = 0 /\ n # SeqMod - 1)
    BY <1>2, <1>3
  <2>3. PICK x \in q + 1 .. q + Reach : h[next + j] = x /\ Number(x) = next + j
    BY <2>1, <2>2 DEF n, HoldsAfter
  <2>4. Number(x) = IF n + (x - q) < SeqMod THEN n + (x - q) ELSE n + (x - q) - SeqMod
    BY <1>5
  <2>5. x = q + j + 1
    BY <1>1, <1>2, <1>3, <2>1, <2>3, <2>4
  <2>6. QED
    BY <1>1, <2>3, <2>5
<1>7. k = 0 \/ k <= Reach
  <2>1. CASE k > 0
    <3>1. k - 1 \in 0 .. k - 1
      BY <2>1
    <3>2. (k - 1) + 1 <= Reach
      BY <1>6, <3>1
    <3>3. QED
      BY <1>1, <3>2
  <2>2. QED
    BY <2>1
<1>8. k = 0 \/ n = SeqMod - 1 \/ n + k < SeqMod
  BY <1>1, <1>2, <1>3, <1>4
<1>9. e.last = Number(q + k)
  <2>1. CASE k = 0
    BY <1>4, <2>1 DEF n
  <2>2. CASE k > 0
    <3>1. q + k \in q + 1 .. q + Reach
      BY <1>1, <1>7, <2>2
    <3>2. Number(q + k) = IF n + (q + k - q) < SeqMod THEN n + (q + k - q)
                          ELSE n + (q + k - q) - SeqMod
      BY <1>5, <3>1
    <3>3. QED
      BY <1>1, <1>2, <1>3, <1>4, <1>8, <2>2, <3>2
  <2>3. QED
    BY <2>1, <2>2
<1>10. \A i \in 1 .. k : e.out[i + 1] \in c /\ h[e.out[i + 1]] = q + i
  <2>1. ASSUME NEW i \in 1 .. k PROVE e.out[i + 1] \in c /\ h[e.out[i + 1]] = q + i
    <3>1. i - 1 \in 0 .. k - 1 /\ next + (i - 1) = next + i - 1 /\ q + (i - 1) + 1 = q + i
      BY <1>2, <1>3, <1>1
    <3>2. e.out[i + 1] = next + (i - 1)
      BY <1>4, <3>1
    <3>3. QED
      BY <1>4, <1>6, <3>1, <3>2
  <2>2. QED
    BY <2>1
<1>11. ASSUME NEW s \in e.cache
       PROVE  /\ s \in c
              /\ h[s] \in q + 1 .. q + Reach /\ Number(h[s]) = s => h[s] > q + k
              /\ s = 0 /\ n # SeqMod - 1 =>
                   n + 1 > SeqMod - 1 - MaxDistance \/ n + 1 < MaxDistance
  <2>1. s \in c /\ s \notin next .. next + k - 1
    BY <1>4
  <2>2. ASSUME h[s] \in q + 1 .. q + Reach, Number(h[s]) = s PROVE h[s] > q + k
    <3>1. s = IF n + (h[s] - q) < SeqMod THEN n + (h[s] - q) ELSE n + (h[s] - q) - SeqMod
      BY <1>5, <2>2
    <3>2. QED
      BY <1>1, <1>2, <1>3, <1>8, <2>1, <2>2, <3>1
  <2>3. ASSUME s = 0, n # SeqMod - 1
        PROVE  n + 1 > SeqMod - 1 - MaxDistance \/ n + 1 < MaxDistance
    <3>1. ~(s >= next)
      BY <1>2, <1>3, <2>3
    <3>2. Sorted!MayLooped(next, next)
      BY <1>4, <3>1
    <3>3. QED
      BY <1>3, <2>3, <3>2 DEF Sorted!MayLooped, Sorted!SeqMax
  <2>4. QED
    BY <2>1, <2>2, <2>3
<1>12. QED
  BY <1>4, <1>7, <1>8, <1>9, <1>10, <1>11 DEF e, n, RunsTo

-----------------------------------------------------------------------------
(* What is in the map while the source does not change: packets after the  *)
(* output, near it; and, right after a wrap, maybe a packet 0 that has     *)
(* been output.  It stays when its copy is output while it waits, because  *)
(* flushPacket empties the map only away from the ends of the numbers.     *)
Fresh(n) ==
  /\ held[n] \in delivered + 1 .. delivered + Reach
  /\ Sorted!Distance(lastOut, n) <= MaxDistance

LeftOver(n) ==
  /\ n = 0 /\ lastOut <= 2 * MaxDistance - 2
  /\ held[0] # 0 /\ held[0] + lastOut = delivered

Placed ==
  /\ started <=> delivered # 0
  /\ started => lastOut = Number(delivered)
  /\ \A n \in cache : Fresh(n) \/ LeftOver(n)

(* One call hands over nothing, or packets after what was output before,   *)
(* one right after the other.                                              *)
HandsOver(q, k) ==
  /\ q > delivered
  /\ output' = [i \in 1 .. k + 1 |-> q + i - 1]
  /\ delivered' = q + k

InStep ==
  \/ output' = <<>> /\ delivered' = delivered
  \/ \E q \in Nat \ {0}, k \in Nat : HandsOver(q, k)

(* The last packet handed over is the position after it.                   *)
LEMMA LastOfRun ==
  ASSUME NEW q \in Nat \ {0}, NEW k \in Nat, q > delivered,
         output' = [i \in 1 .. k + 1 |-> q + i - 1],
         delivered' = LET own == {i \in DOMAIN output' : output'[i] # 0}
                      IN  IF own = {} THEN delivered
                          ELSE output'[CHOOSE i \in own : \A j \in own : j <= i]
  PROVE  HandsOver(q, k)
<1> DEFINE own  == {i \in DOMAIN output' : output'[i] # 0}
           last == CHOOSE i \in own : \A j \in own : j <= i
<1>1. own = 1 .. k + 1
  OBVIOUS
<1>2. k + 1 \in own /\ \A j \in own : j <= k + 1
  BY <1>1
<1>3. last \in own /\ \A j \in own : j <= last
  BY <1>2
<1>4. last = k + 1
  BY <1>1, <1>2, <1>3
<1>5. delivered' = output'[last]
  BY <1>2
<1> HIDE DEF last, own
<1>6. output'[k + 1] = q + k
  OBVIOUS
<1>7. QED
  BY <1>4, <1>5, <1>6 DEF HandsOver

(* Facts about the position that the cases below share.                    *)
LEMMA Position ==
  ASSUME IInv, Stream, Placed
  PROVE  /\ SeqMod \in Nat \ {0} /\ Reach \in Nat /\ MaxDistance \in Nat \ {0}
         /\ 2 * Reach <= SeqMod /\ Reach + 3 * MaxDistance <= SeqMod /\ 4 * MaxDistance < SeqMod
         /\ delivered \in Nat /\ cache \in SUBSET Sorted!Seqs /\ DOMAIN held = cache
         /\ lastOut \in 0 .. SeqMod - 1
         /\ \A s \in cache : held[s] \in Nat \ {0} /\ Number(held[s]) = s
<1>1. \A s \in cache : held[s] # 0
  BY DEF Placed, Fresh, LeftOver, Stream
<1>2. \A s \in cache : held[s] \in Nat \ {0} /\ Number(held[s]) = s
  BY <1>1 DEF Stream
<1>3. /\ delivered \in Nat /\ cache \in SUBSET Sorted!Seqs /\ DOMAIN held = cache
      /\ lastOut \in 0 .. SeqMod - 1
  BY DEF IInv, Stream, Sorted!Inv, Sorted!TypeOK, Sorted!Seqs
<1>4. QED
  BY <1>2, <1>3, ChannelAssumption

(* The number that follows the position.                                   *)
LEMMA NextNumber ==
  ASSUME NEW n \in 0 .. SeqMod - 1
  PROVE  Sorted!NextSeq(n) = IF n = SeqMod - 1 THEN 0 ELSE n + 1
  BY SortorConstants, Sorted!NextSeqType DEF Sorted!Seqs, Sorted!SeqMax

(* The number of a packet ahead, from the position.                        *)
LEMMA NumberFromHere ==
  ASSUME IInv, Stream, Placed, started, NEW x \in delivered + 1 .. delivered + Reach
  PROVE  /\ Number(x) = IF lastOut + (x - delivered) < SeqMod THEN lastOut + (x - delivered)
                        ELSE lastOut + (x - delivered) - SeqMod
         /\ Sorted!Distance(lastOut, Number(x)) =
              IF lastOut + (x - delivered) < SeqMod \/ lastOut = SeqMod - 1 THEN x - delivered - 1
              ELSE x - delivered - 2
<1>1. /\ SeqMod \in Nat \ {0} /\ Reach \in Nat /\ 2 * Reach <= SeqMod
      /\ delivered \in Nat /\ lastOut = Number(delivered)
  BY Position DEF Placed
<1>2. x \in Nat /\ delivered <= x /\ x - delivered < SeqMod
  BY <1>1
<1>3. QED
  BY <1>1, <1>2, NumberAhead, DistanceByCount

(* The packet that is next in line.                                        *)
LEMMA ReleaseNext ==
  ASSUME IInv, Stream, Placed, NEW p \in delivered + 1 .. delivered + Reach,
         Sort(Number(p), p), Sorted!OutputNext(Number(p))
  PROVE  Placed' /\ InStep
<1> DEFINE n == Number(p)
           e == Sorted!Emit(cache, n)
           inBuffer == [x \in DOMAIN held \union {n} |-> IF x \in DOMAIN held THEN held[x] ELSE p]
           direct   == n = Sortor!NextSeq(Sortor!Base(n))
<1>1. /\ SeqMod \in Nat \ {0} /\ Reach \in Nat /\ MaxDistance \in Nat \ {0}
      /\ 2 * Reach <= SeqMod /\ Reach + 3 * MaxDistance <= SeqMod /\ 4 * MaxDistance < SeqMod
      /\ delivered \in Nat /\ cache \in SUBSET Sorted!Seqs /\ DOMAIN held = cache
      /\ lastOut \in 0 .. SeqMod - 1
      /\ \A s \in cache : held[s] \in Nat \ {0} /\ Number(held[s]) = s
  BY Position
<1>2. p \in Nat \ {0} /\ n \in 0 .. SeqMod - 1
  BY <1>1, NumberType
<1>3. direct
  <2>1. \A last : Sortor!NextSeq(last) = Sorted!NextSeq(last)
    BY DEF Sortor!NextSeq, Sorted!NextSeq
  <2>2. Sortor!Base(n) = Sorted!Base(n)
    BY DEF Sortor!Base, Sorted!Base
  <2>3. QED
    BY <2>1, <2>2 DEF Sorted!OutputNext
<1>4. /\ started' = TRUE /\ lastOut' = e.last /\ cache' = e.cache /\ out' = e.out
      /\ e.cache \in SUBSET cache /\ e.out \in Seq(Sorted!Seqs)
  <2>1. n \in Sorted!Seqs
    BY <1>2 DEF Sorted!Seqs
  <2>2. QED
    BY <1>1, <2>1, SortorConstants, Sorted!EmitProperty DEF Sorted!OutputNext, Sorted!Apply
<1>5. /\ held' = [x \in cache' |-> inBuffer[x]]
      /\ output' = [i \in DOMAIN out' |-> IF i = 1 /\ direct THEN p ELSE inBuffer[out'[i]]]
      /\ delivered' = LET own == {i \in DOMAIN output' : output'[i] # 0}
                      IN  IF own = {} THEN delivered
                          ELSE output'[CHOOSE i \in own : \A j \in own : j <= i]
  BY DEF Sort
<1>6. \A s \in cache : inBuffer[s] = held[s]
  BY <1>1
<1> HIDE DEF inBuffer, direct
(* It is the packet after the last one, or the first of all.               *)
<1>7. started => p = delivered + 1 /\ n = IF lastOut = SeqMod - 1 THEN 0 ELSE lastOut + 1
  <2>1. ASSUME started PROVE p = delivered + 1 /\ n = IF lastOut = SeqMod - 1 THEN 0 ELSE lastOut + 1
    <3>1. n = IF lastOut = SeqMod - 1 THEN 0 ELSE lastOut + 1
      BY <1>1, <2>1, NextNumber DEF Sorted!OutputNext, Sorted!Base
    <3>2. n = IF lastOut + (p - delivered) < SeqMod THEN lastOut + (p - delivered)
              ELSE lastOut + (p - delivered) - SeqMod
      BY <2>1, NumberFromHere
    <3> HIDE DEF n
    <3>3. QED
      BY <1>1, <3>1, <3>2
  <2>2. QED
    BY <2>1
<1>8. cache # {} => started
  BY DEF IInv, Sorted!Inv, Sorted!NothingHeldBeforeStart
<1> HIDE DEF e
<1>9. HoldsAfter(cache, held, p)
  <2>1. ASSUME NEW s \in cache
        PROVE  \/ held[s] \in p + 1 .. p + Reach /\ Number(held[s]) = s
               \/ s = 0 /\ n # SeqMod - 1
    <3>1. started /\ p = delivered + 1 /\ n = IF lastOut = SeqMod - 1 THEN 0 ELSE lastOut + 1
      BY <1>7, <1>8
    <3>2. CASE Fresh(s) /\ held[s] # p
      BY <1>1, <3>1, <3>2 DEF Fresh
    <3>3. CASE held[s] = p
      <4>1. s = n
        BY <1>1, <3>3
      <4>2. Sorted!NextSeq(lastOut) = n
        BY <1>1, <3>1, NextNumber
      <4>3. n = 0
        BY <3>1, <4>1, <4>2 DEF IInv, Sorted!Inv, Sorted!OnlyZeroIsHeld
      <4>4. QED
        BY <1>1, <4>1, <4>3
    <3>4. CASE LeftOver(s)
      BY <1>1, <3>1, <3>4 DEF LeftOver
    <3>5. QED
      BY <3>2, <3>3, <3>4 DEF Placed
  <2>2. QED
    BY <2>1 DEF HoldsAfter
<1> PICK k \in Nat : RunsTo(cache, held, p, k)
  <2>1. p \in Nat /\ cache \in SUBSET Sorted!Seqs
    BY <1>1, <1>2
  <2>2. QED
    BY <1>9, <2>1, EmitInOrder
<1>10. /\ k = 0 \/ k <= Reach
       /\ k = 0 \/ n = SeqMod - 1 \/ n + k < SeqMod
       /\ e.last = Number(p + k)
       /\ Len(e.out) = k + 1 /\ e.out[1] = n
       /\ \A i \in 1 .. k : e.out[i + 1] \in cache /\ held[e.out[i + 1]] = p + i
       /\ \A s \in e.cache :
            /\ s \in cache
            /\ held[s] \in p + 1 .. p + Reach /\ Number(held[s]) = s => held[s] > p + k
            /\ s = 0 /\ n # SeqMod - 1 =>
                 n + 1 > SeqMod - 1 - MaxDistance \/ n + 1 < MaxDistance
  BY DEF RunsTo, e
<1>11. HandsOver(p, k)
  <2>1. DOMAIN out' = 1 .. k + 1
    BY <1>4, <1>10
  <2>2. ASSUME NEW i \in 1 .. k + 1, i # 1 PROVE inBuffer[out'[i]] = p + i - 1
    <3>1. i - 1 \in 1 .. k /\ (i - 1) + 1 = i /\ p + (i - 1) = p + i - 1
      BY <1>2, <2>2
    <3>2. out'[i] \in cache /\ held[out'[i]] = p + (i - 1)
      BY <1>4, <1>10, <3>1
    <3>3. QED
      BY <1>6, <3>1, <3>2
  <2>3. output' = [i \in 1 .. k + 1 |-> p + i - 1]
    <3>1. output' = [i \in 1 .. k + 1 |-> IF i = 1 THEN p ELSE inBuffer[out'[i]]]
      BY <1>3, <1>5, <2>1
    <3>2. ASSUME NEW i \in 1 .. k + 1
          PROVE  (IF i = 1 THEN p ELSE inBuffer[out'[i]]) = p + i - 1
      BY <1>2, <2>2
    <3>3. QED
      BY <3>1, <3>2
  <2>4. p > delivered
    BY <1>1
  <2>5. QED
    BY <1>2, <1>5, <2>3, <2>4, LastOfRun
<1>12. delivered' = p + k /\ lastOut' = Number(delivered') /\ delivered' # 0 /\ k \in Nat
  BY <1>2, <1>4, <1>10, <1>11 DEF HandsOver
<1>13. ASSUME NEW s \in cache' PROVE Fresh(s)' \/ LeftOver(s)'
  <2>1. /\ s \in cache /\ held'[s] = held[s] /\ held[s] \in Nat \ {0} /\ Number(held[s]) = s
        /\ held[s] \in p + 1 .. p + Reach => held[s] > p + k
        /\ s = 0 /\ n # SeqMod - 1 =>
             n + 1 > SeqMod - 1 - MaxDistance \/ n + 1 < MaxDistance
    <3>1. s \in e.cache /\ s \in cache
      BY <1>4
    <3>2. held'[s] = held[s] /\ held[s] \in Nat \ {0} /\ Number(held[s]) = s
      BY <1>1, <1>5, <1>6, <3>1
    <3>3. QED
      BY <1>10, <3>1, <3>2
  <2>2. started /\ p = delivered + 1 /\ n = IF lastOut = SeqMod - 1 THEN 0 ELSE lastOut + 1
    BY <1>7, <1>8, <2>1
  <2>3. lastOut = Number(delivered)
    BY <2>2 DEF Placed
  (* How far the run went, when it went on: the last of it was waiting.     *)
  <2>4. n + k < SeqMod \/ n = SeqMod - 1
    BY <1>1, <1>2, <1>10
  <2>5. n # SeqMod - 1 => lastOut' = n + k
    <3>1. ASSUME n # SeqMod - 1 PROVE Number(p + k) = n + k
      <4>1. p + k \in Nat /\ p <= p + k /\ (p + k) - p = k /\ k < SeqMod /\ n + k < SeqMod
        BY <1>1, <1>2, <1>10, <2>4, <3>1
      <4>2. QED
        BY <1>2, <4>1, NumberAhead
    <3>2. QED
      BY <1>12, <3>1
  <2>11. /\ SeqMod \in Nat /\ Reach \in Nat /\ MaxDistance \in Nat /\ k \in Nat /\ delivered \in Nat
         /\ 2 * Reach <= SeqMod /\ lastOut \in 0 .. SeqMod - 1 /\ p = delivered + 1
    BY <1>1, <1>12, <2>2
  <2>6. k <= MaxDistance \/ (lastOut + (k + 1) >= SeqMod /\ lastOut # SeqMod - 1)
    <3>1. CASE k = 0
      BY <2>11, <3>1
    <3>2. CASE k > 0
      <4>1. k \in 1 .. k
        BY <3>2
      <4>2. e.out[k + 1] \in cache /\ held[e.out[k + 1]] = p + k
        BY <1>10, <4>1
      <4> DEFINE x == e.out[k + 1]
      <4>3. ~LeftOver(x)
        <5>1. lastOut \in Nat /\ p + k > delivered
          BY <1>1
        <5>2. QED
          BY <1>1, <4>2, <5>1 DEF LeftOver
      <4>4. Fresh(x)
        BY <4>2, <4>3 DEF Placed
      <4>5. p + k \in delivered + 1 .. delivered + Reach /\ x = Number(p + k)
        BY <1>1, <4>2, <4>4 DEF Fresh
      <4>6. Sorted!Distance(lastOut, Number(p + k)) <= MaxDistance
        BY <4>4, <4>5 DEF Fresh
      <4>7. \A y \in delivered + 1 .. delivered + Reach :
              Sorted!Distance(lastOut, Number(y)) =
                IF lastOut + (y - delivered) < SeqMod \/ lastOut = SeqMod - 1
                THEN y - delivered - 1 ELSE y - delivered - 2
        BY <2>2, NumberFromHere
      <4>8. QED
        BY <2>11, <4>5, <4>6, <4>7
    <3>3. QED
      BY <3>1, <3>2
  <2>7. CASE held[s] > delivered + 1
    <3>1. Fresh(s)
      BY <1>1, <2>1, <2>7 DEF Placed, LeftOver
    <3>2. held[s] \in p + 1 .. p + Reach
      BY <1>1, <2>1, <2>2, <2>7, <3>1 DEF Fresh
    <3>3. held[s] \in delivered' + 1 .. delivered' + Reach
      BY <1>1, <1>12, <2>1, <2>2, <3>1, <3>2 DEF Fresh
    <3>4. Sorted!Distance(lastOut', s) <= Sorted!Distance(lastOut, s)
      <4>1. /\ held[s] \in delivered + 1 .. delivered + Reach
            /\ p + k \in delivered + 1 .. held[s] - 1
        BY <1>1, <2>1, <2>2, <3>1, <3>2 DEF Fresh
      <4>2. QED
        BY <1>1, <1>12, <2>1, <2>3, <4>1, CloserByDelivery
    <3>5. /\ Sorted!Distance(lastOut, s) \in Int /\ Sorted!Distance(lastOut', s) \in Int
          /\ Sorted!Distance(lastOut, s) <= MaxDistance
      <4>1. held[s] \in delivered + 1 .. delivered + Reach
        BY <3>1 DEF Fresh
      <4>2. Sorted!Distance(lastOut, s) \in Int
        BY <1>1, <2>1, <2>2, <4>1, NumberFromHere
      <4>3. delivered' \in Nat /\ Sorted!Distance(lastOut', s) \in Int
        BY <1>1, <1>2, <1>12, <2>1, <3>3, DistanceByCount
      <4>4. QED
        BY <3>1, <4>2, <4>3 DEF Fresh
    <3>6. Sorted!Distance(lastOut', s) <= MaxDistance
      BY <1>1, <3>4, <3>5
    <3>7. QED
      BY <2>1, <3>3, <3>6 DEF Fresh, Sorted!Distance, Sorted!NextSeq, Sorted!SeqMax
  <2>8. CASE held[s] = delivered + 1
    <3>1. s = n
      BY <2>1, <2>2, <2>8
    <3>2. s = 0
      <4>1. Sorted!NextSeq(lastOut) = n
        BY <1>1, <2>2, NextNumber
      <4>2. QED
        BY <2>1, <2>2, <3>1, <4>1 DEF IInv, Sorted!Inv, Sorted!OnlyZeroIsHeld
    <3>3. lastOut' = k /\ lastOut = SeqMod - 1 /\ k <= MaxDistance /\ 1 < MaxDistance
      BY <1>1, <1>2, <2>1, <2>2, <2>5, <2>6, <3>1, <3>2
    <3>4. QED
      BY <1>1, <1>2, <1>12, <2>1, <2>2, <2>8, <3>2, <3>3 DEF LeftOver
  <2>9. CASE ~(held[s] > delivered)
    <3>1. LeftOver(s)
      BY <1>1, <2>1, <2>9 DEF Placed, Fresh
    <3>2. n = lastOut + 1 /\ n + 1 < MaxDistance
      BY <1>1, <2>1, <2>2, <3>1 DEF LeftOver
    <3>3. lastOut' = n + k /\ k <= MaxDistance
      BY <1>1, <1>10, <2>5, <2>6, <3>1, <3>2 DEF LeftOver
    <3>4. QED
      BY <1>1, <1>2, <1>12, <2>1, <2>2, <3>1, <3>2, <3>3 DEF LeftOver
  <2>10. QED
    BY <1>1, <2>1, <2>7, <2>8, <2>9
<1>14. QED
  BY <1>2, <1>4, <1>11, <1>12, <1>13 DEF Placed, InStep

(* When packet 0 stays in the map after a forced flush that started right  *)
(* after a wrap, the position has not gone far.                            *)
LEMMA ZeroIsNear ==
  ASSUME NEW from \in Nat, from + 3 <= MaxDistance,
         NEW to \in 0 .. SeqMod - 2, to - from <= Reach,
         Sorted!Distance(to, 0) <= MaxDistance
  PROVE  to <= 2 * MaxDistance - 2
<1>1. /\ SeqMod \in Nat \ {0} /\ MaxDistance \in Nat \ {0} /\ Reach \in Nat
      /\ Reach + 3 * MaxDistance <= SeqMod
  BY ChannelAssumption
<1> DEFINE next == Sorted!NextSeq(to)
           ret == IF 0 > next THEN 0 - next ELSE next - 0
<1>2. next = to + 1
  <2>1. to \in 0 .. SeqMod - 1 /\ to # SeqMod - 1
    BY <1>1
  <2>2. QED
    BY <2>1, NextNumber
<1>3. Sorted!Distance(to, 0) = IF ret > (SeqMod - 1) \div 2 THEN SeqMod - 1 - ret ELSE ret
  BY DEF Sorted!Distance, Sorted!SeqMax
<1> HIDE DEF next
<1>4. ret = to + 1
  BY <1>1, <1>2
<1> HIDE DEF ret
<1>5. ret <= MaxDistance \/ SeqMod - 1 - ret <= MaxDistance
  BY <1>3
<1>6. QED
  BY <1>1, <1>4, <1>5

(* A packet that is kept while others are waited for, or that makes the    *)
(* channel give up on them.                                                *)
LEMMA KeepOrGiveUp ==
  ASSUME IInv, Stream, Placed, NEW p \in delivered + 1 .. delivered + Reach,
         Sort(Number(p), p), Sorted!Buffer(Number(p))
  PROVE  Placed' /\ InStep
<1> DEFINE n == Number(p)
           c == cache \union {n}
           next == Sorted!NextSeq(lastOut)
           inBuffer == [x \in DOMAIN held \union {n} |-> IF x \in DOMAIN held THEN held[x] ELSE p]
           direct   == n = Sortor!NextSeq(Sortor!Base(n))
<1>1. /\ SeqMod \in Nat \ {0} /\ Reach \in Nat /\ MaxDistance \in Nat \ {0}
      /\ 2 * Reach <= SeqMod /\ Reach + 3 * MaxDistance <= SeqMod /\ 4 * MaxDistance < SeqMod
      /\ delivered \in Nat /\ cache \in SUBSET Sorted!Seqs /\ DOMAIN held = cache
      /\ lastOut \in 0 .. SeqMod - 1
      /\ \A s \in cache : held[s] \in Nat \ {0} /\ Number(held[s]) = s
  BY Position
<1>2. p \in Nat \ {0} /\ n \in 0 .. SeqMod - 1
  BY <1>1, NumberType
<1>3. started /\ started' /\ n # next /\ ~direct
  <2>1. \A last : Sortor!NextSeq(last) = Sorted!NextSeq(last)
    BY DEF Sortor!NextSeq, Sorted!NextSeq
  <2>2. started => Sortor!Base(n) = lastOut
    BY DEF Sortor!Base
  <2>3. QED
    BY <2>1, <2>2 DEF Sorted!Buffer
<1>4. lastOut = Number(delivered) /\ delivered # 0
  BY <1>3 DEF Placed
<1>5. next = IF lastOut = SeqMod - 1 THEN 0 ELSE lastOut + 1
  BY <1>1, NextNumber
<1>6. /\ held' = [x \in cache' |-> inBuffer[x]]
      /\ output' = [i \in DOMAIN out' |-> IF i = 1 /\ direct THEN p ELSE inBuffer[out'[i]]]
      /\ delivered' = LET own == {i \in DOMAIN output' : output'[i] # 0}
                      IN  IF own = {} THEN delivered
                          ELSE output'[CHOOSE i \in own : \A j \in own : j <= i]
  BY DEF Sort
<1>7. c \in SUBSET Sorted!Seqs /\ c # {} /\ n \in c /\ next \in Sorted!Seqs
  <2>1. n \in Sorted!Seqs /\ next \in Sorted!Seqs
    BY <1>1, <1>2, <1>5 DEF Sorted!Seqs
  <2>2. QED
    BY <1>1, <2>1
(* Where a packet ahead sits.                                              *)
<1>8. \A x \in delivered + 1 .. delivered + Reach :
        Number(x) = IF lastOut + (x - delivered) < SeqMod THEN lastOut + (x - delivered)
                    ELSE lastOut + (x - delivered) - SeqMod
  BY <1>3, NumberFromHere
<1> HIDE DEF n
<1>9. n = IF lastOut + (p - delivered) < SeqMod THEN lastOut + (p - delivered)
          ELSE lastOut + (p - delivered) - SeqMod
  BY <1>8 DEF n
(* The map with the new packet in it: the copy it may hold already is p.   *)
<1>10. ASSUME NEW s \in c
       PROVE  \/ /\ inBuffer[s] \in delivered + 1 .. delivered + Reach
                 /\ Number(inBuffer[s]) = s
                 /\ s # n => Sorted!Distance(lastOut, s) <= MaxDistance
              \/ LeftOver(s) /\ s # n /\ s \in cache /\ inBuffer[s] = held[s]
  <2>1. CASE s \in cache
    <3>1. inBuffer[s] = held[s]
      BY <1>1, <2>1
    <3>2. CASE Fresh(s)
      BY <1>1, <2>1, <3>1, <3>2 DEF Fresh
    <3>3. CASE LeftOver(s)
      <4>1. s # n
        BY <1>1, <1>9, <3>3 DEF LeftOver
      <4>2. QED
        BY <2>1, <3>1, <3>3, <4>1
    <3>4. QED
      BY <2>1, <3>2, <3>3 DEF Placed
  <2>2. CASE s \notin cache
    <3>1. s = n /\ inBuffer[s] = p
      BY <1>1, <2>2
    <3>2. QED
      BY <3>1 DEF n
  <2>3. QED
    BY <2>1, <2>2
<1> HIDE DEF inBuffer, direct
<1>12. CASE ~Sorted!NeedForceFlush(c, lastOut, n)
  <2>1. cache' = c /\ out' = <<>> /\ lastOut' = lastOut
    BY <1>12 DEF Sorted!Buffer, n
  <2>2. Sorted!Distance(lastOut, n) <= MaxDistance
    <3>1. ~(Sorted!Distance(lastOut, n) > MaxDistance)
      BY <1>7, <1>12 DEF Sorted!NeedForceFlush
    <3>2. Sorted!Distance(lastOut, n) \in Int
      BY <1>1, <1>3, NumberFromHere DEF n
    <3>3. QED
      BY <1>1, <3>1, <3>2
  <2>3. output' = <<>> /\ delivered' = delivered
    BY <1>6, <2>1
  <2>4. ASSUME NEW s \in cache' PROVE Fresh(s)' \/ LeftOver(s)'
    <3>1. s \in c /\ held'[s] = inBuffer[s]
      BY <1>6, <2>1
    <3>2. CASE LeftOver(s) /\ s # n /\ s \in cache /\ inBuffer[s] = held[s]
      BY <2>1, <2>3, <3>1, <3>2 DEF LeftOver
    <3>3. CASE inBuffer[s] \in delivered + 1 .. delivered + Reach
               /\ (s # n => Sorted!Distance(lastOut, s) <= MaxDistance)
      <4>1. Sorted!Distance(lastOut', s) <= MaxDistance
        BY <2>1, <2>2, <3>3
      <4>2. held'[s] \in delivered' + 1 .. delivered' + Reach
        BY <2>3, <3>1, <3>3
      <4>3. QED
        BY <4>1, <4>2 DEF Fresh, Sorted!Distance, Sorted!NextSeq, Sorted!SeqMax
    <3>4. QED
      BY <1>10, <3>1, <3>2, <3>3
  <2>5. QED
    BY <1>3, <1>4, <2>1, <2>3, <2>4 DEF Placed, InStep
<1>13. CASE Sorted!NeedForceFlush(c, lastOut, n)
  <2> DEFINE t == Sorted!FlushTarget(c, next)
             rest == c \ {t}
             q == inBuffer[t]
             e == Sorted!Emit(rest, t)
  <2>1. /\ t \in c
        /\ \A s \in c : s >= next => next <= t /\ t <= s
        /\ (\A s \in c : s < next) => \A s \in c : t <= s
    BY <1>7, SortorConstants, Sorted!FlushTargetProperty
  <2>2. /\ lastOut' = e.last
        /\ cache' = {s \in e.cache : Sorted!Distance(e.last, s) <= MaxDistance}
        /\ out' = e.out
    BY <1>13 DEF Sorted!Buffer, Sorted!Apply, Sorted!ForceFlush, n
  <2> HIDE DEF t, c, next
  (* Numbers in the map, and where they are from here.                      *)
  <2>3. \A s \in c : s \in 0 .. SeqMod - 1
    BY <1>7 DEF Sorted!Seqs
  <2>4. ASSUME NEW s \in c, inBuffer[s] \in delivered + 1 .. delivered + Reach, Number(inBuffer[s]) = s
        PROVE  /\ inBuffer[s] \in Nat
               /\ s = IF lastOut + (inBuffer[s] - delivered) < SeqMod
                      THEN lastOut + (inBuffer[s] - delivered)
                      ELSE lastOut + (inBuffer[s] - delivered) - SeqMod
    BY <1>1, <1>8, <2>4
  <2>5. ~LeftOver(t)
    <3>1. ASSUME LeftOver(t) PROVE FALSE
      <4>1. t = 0 /\ lastOut <= 2 * MaxDistance - 2
        BY <3>1 DEF LeftOver
      <4>2. CASE n >= next
        <5>1. next <= t
          BY <1>7, <2>1, <4>2
        <5>2. QED
          BY <1>1, <1>5, <4>1, <5>1
      <4>3. CASE n < next
        BY <1>1, <1>2, <1>3, <1>5, <1>9, <4>1, <4>3
      <4>4. QED
        BY <1>1, <1>2, <1>5, <4>2, <4>3
    <3>2. QED
      BY <3>1
  <2>6. /\ q \in delivered + 1 .. delivered + Reach /\ Number(q) = t /\ q \in Nat \ {0}
        /\ t = IF lastOut + (q - delivered) < SeqMod THEN lastOut + (q - delivered)
               ELSE lastOut + (q - delivered) - SeqMod
    <3>1. q \in delivered + 1 .. delivered + Reach /\ Number(q) = t
      BY <1>10, <2>1, <2>5
    <3>2. QED
      BY <1>1, <2>1, <2>4, <3>1
  <2> HIDE DEF q, rest
  (* Everything else in the map comes after the target.                     *)
  <2>7. ASSUME NEW s \in c, s # t, inBuffer[s] \in delivered + 1 .. delivered + Reach,
               Number(inBuffer[s]) = s
        PROVE  inBuffer[s] > q
    <3>1. /\ inBuffer[s] \in Nat
          /\ s = IF lastOut + (inBuffer[s] - delivered) < SeqMod
                 THEN lastOut + (inBuffer[s] - delivered)
                 ELSE lastOut + (inBuffer[s] - delivered) - SeqMod
      BY <2>4, <2>7
    <3>2. s \in 0 .. SeqMod - 1 /\ t \in 0 .. SeqMod - 1
      BY <2>1, <2>3
    <3>3. CASE s >= next
      <4>1. next <= t /\ t <= s
        BY <2>1, <3>3
      <4>2. QED
        BY <1>1, <1>5, <2>6, <2>7, <3>1, <3>2, <4>1
    <3>4. CASE s < next /\ t >= next
      BY <1>1, <1>5, <2>6, <2>7, <3>1, <3>2, <3>4
    <3>5. CASE s < next /\ t < next
      <4>1. ASSUME NEW x \in c PROVE x < next
        <5>1. x \in 0 .. SeqMod - 1
          BY <2>3
        <5>2. QED
          BY <1>1, <1>5, <2>1, <3>2, <3>5, <5>1
      <4>2. t <= s
        BY <2>1, <4>1
      <4>3. QED
        BY <1>1, <1>5, <2>6, <2>7, <3>1, <3>2, <3>5, <4>2
    <3>6. QED
      BY <1>1, <1>5, <3>2, <3>3, <3>4, <3>5
  <2>8. HoldsAfter(rest, inBuffer, q)
    <3>1. ASSUME NEW s \in rest
          PROVE  \/ inBuffer[s] \in q + 1 .. q + Reach /\ Number(inBuffer[s]) = s
                 \/ s = 0 /\ Number(q) # SeqMod - 1
      <4>1. s \in c /\ s # t
        BY DEF rest
      <4>2. CASE inBuffer[s] \in delivered + 1 .. delivered + Reach /\ Number(inBuffer[s]) = s
        BY <1>1, <2>6, <2>7, <4>1, <4>2
      <4>3. CASE LeftOver(s)
        BY <1>1, <2>6, <4>3 DEF LeftOver
      <4>4. QED
        BY <1>10, <4>1, <4>2, <4>3
    <3>2. QED
      BY <3>1 DEF HoldsAfter
  <2> PICK k \in Nat : RunsTo(rest, inBuffer, q, k)
    <3>1. q \in Nat /\ rest \in SUBSET Sorted!Seqs
      BY <1>7, <2>6 DEF rest
    <3>2. QED
      BY <2>8, <3>1, EmitInOrder
  <2>9. /\ k = 0 \/ k <= Reach
        /\ k = 0 \/ t = SeqMod - 1 \/ t + k < SeqMod
        /\ e.last = Number(q + k)
        /\ Len(e.out) = k + 1 /\ e.out[1] = t
        /\ \A i \in 1 .. k : e.out[i + 1] \in rest /\ inBuffer[e.out[i + 1]] = q + i
        /\ \A s \in e.cache :
             /\ s \in rest
             /\ inBuffer[s] \in q + 1 .. q + Reach /\ Number(inBuffer[s]) = s => inBuffer[s] > q + k
             /\ s = 0 /\ t # SeqMod - 1 =>
                  t + 1 > SeqMod - 1 - MaxDistance \/ t + 1 < MaxDistance
    BY <2>6 DEF RunsTo
  <2>10. e.out \in Seq(Sorted!Seqs)
    <3>1. rest \in SUBSET Sorted!Seqs /\ t \in Sorted!Seqs
      BY <1>7, <2>1 DEF rest
    <3>2. QED
      BY <3>1, SortorConstants, Sorted!EmitProperty
  <2> HIDE DEF e
  <2>11. HandsOver(q, k)
    <3>1. DOMAIN out' = 1 .. k + 1
      BY <2>2, <2>9, <2>10
    <3>2. ASSUME NEW i \in 1 .. k + 1 PROVE inBuffer[out'[i]] = q + i - 1
      <4>1. CASE i = 1
        BY <2>2, <2>6, <2>9, <4>1 DEF q
      <4>2. CASE i # 1
        <5>1. i - 1 \in 1 .. k /\ (i - 1) + 1 = i
          BY <4>2
        <5>2. inBuffer[out'[i]] = q + (i - 1)
          BY <2>2, <2>9, <5>1
        <5>3. QED
          BY <2>6, <5>2
      <4>3. QED
        BY <4>1, <4>2
    <3>3. output' = [i \in 1 .. k + 1 |-> q + i - 1]
      <4>1. output' = [i \in 1 .. k + 1 |-> inBuffer[out'[i]]]
        BY <1>3, <1>6, <3>1
      <4>2. QED
        BY <3>2, <4>1
    <3>4. q > delivered
      BY <1>1, <2>6
    <3>5. QED
      BY <1>6, <2>6, <3>3, <3>4, LastOfRun
  <2>12. delivered' = q + k /\ lastOut' = Number(delivered') /\ delivered' # 0
    BY <2>2, <2>6, <2>9, <2>11 DEF HandsOver
  (* The last that comes out was in the map, or is the target.              *)
  <2>13. q + k <= delivered + Reach
    <3>1. CASE k = 0
      BY <1>1, <2>6, <3>1
    <3>2. CASE k > 0
      <4> DEFINE x == e.out[k + 1]
      <4>1. k \in 1 .. k
        BY <3>2
      <4>2. x \in rest /\ inBuffer[x] = q + k
        BY <2>9, <4>1
      <4>3. x \in c
        BY <4>2 DEF rest
      <4>4. CASE inBuffer[x] \in delivered + 1 .. delivered + Reach
        BY <4>2, <4>4
      <4>5. CASE LeftOver(x) /\ inBuffer[x] = held[x]
        BY <1>1, <2>6, <4>2, <4>5 DEF LeftOver
      <4>6. QED
        BY <1>10, <4>3, <4>4, <4>5
    <3>3. QED
      BY <3>1, <3>2
  <2>14. ASSUME NEW s \in cache' PROVE Fresh(s)' \/ LeftOver(s)'
    <3>1. /\ s \in c /\ s # t /\ held'[s] = inBuffer[s]
          /\ Sorted!Distance(lastOut', s) <= MaxDistance
          /\ inBuffer[s] \in q + 1 .. q + Reach /\ Number(inBuffer[s]) = s => inBuffer[s] > q + k
          /\ s = 0 /\ t # SeqMod - 1 =>
               t + 1 > SeqMod - 1 - MaxDistance \/ t + 1 < MaxDistance
      <4>1. s \in e.cache /\ s \in rest /\ Sorted!Distance(lastOut', s) <= MaxDistance
        BY <2>2, <2>9
      <4>2. QED
        BY <1>6, <2>9, <4>1 DEF rest
    <3>2. CASE inBuffer[s] \in delivered + 1 .. delivered + Reach /\ Number(inBuffer[s]) = s
      <4>1. inBuffer[s] > q
        BY <2>7, <3>1, <3>2
      <4>2. inBuffer[s] > q + k
        BY <1>1, <2>6, <3>1, <3>2, <4>1
      <4>3. held'[s] \in delivered' + 1 .. delivered' + Reach
        BY <1>1, <2>6, <2>12, <3>1, <3>2, <4>2
      <4>4. QED
        BY <3>1, <4>3 DEF Fresh, Sorted!Distance, Sorted!NextSeq, Sorted!SeqMax
    <3>3. CASE LeftOver(s) /\ s \in cache /\ inBuffer[s] = held[s]
      <4>1. s = 0 /\ lastOut <= 2 * MaxDistance - 2 /\ held[0] # 0 /\ held[0] + lastOut = delivered
        BY <3>3 DEF LeftOver
      <4>2. held[0] \in Nat
        BY <1>1, <3>3, <4>1
      <4>3. t \in 1 .. SeqMod - 1 /\ t = lastOut + (q - delivered) /\ t + 1 < MaxDistance
        <5>1. t \in 0 .. SeqMod - 1
          BY <2>1, <2>3
        <5>2. t # 0
          BY <3>1, <4>1
        <5>3. t = lastOut + (q - delivered)
          <6>1. CASE 0 >= next
            BY <1>1, <1>5, <4>1, <6>1
          <6>2. CASE t >= next
            BY <1>1, <1>5, <2>6, <4>1, <5>1, <6>2
          <6>3. CASE 0 < next /\ t < next
            <7>1. ASSUME NEW x \in c PROVE x < next
              <8>1. x \in 0 .. SeqMod - 1
                BY <2>3
              <8>2. QED
                BY <1>1, <1>5, <2>1, <5>1, <6>3, <8>1
            <7>2. t <= 0
              BY <2>1, <3>1, <4>1, <7>1
            <7>3. QED
              BY <5>1, <5>2, <7>2
          <6>4. QED
            BY <1>1, <1>5, <5>1, <6>1, <6>2, <6>3
        <5>4. t # SeqMod - 1 /\ ~(t + 1 > SeqMod - 1 - MaxDistance)
          BY <1>1, <2>6, <4>1, <5>3
        <5>5. QED
          BY <3>1, <4>1, <5>1, <5>2, <5>3, <5>4
      <4>4. lastOut' = t + k
        <5>1. q + k \in Nat /\ q <= q + k /\ (q + k) - q = k /\ k < SeqMod /\ t + k < SeqMod
          BY <1>1, <2>6, <2>9, <4>3
        <5>2. QED
          BY <2>6, <2>12, <5>1, NumberAhead
      <4>5. lastOut' <= 2 * MaxDistance - 2
        <5>1. /\ lastOut' \in 0 .. SeqMod - 2 /\ lastOut' - lastOut <= Reach
              /\ lastOut \in Nat /\ lastOut + 3 <= MaxDistance
          <6>1. q \in Nat /\ q > delivered /\ t = lastOut + (q - delivered) /\ t + 1 < MaxDistance
            BY <1>1, <2>6, <4>3
          <6> HIDE DEF q
          <6>2. lastOut \in Nat /\ lastOut + 3 <= MaxDistance
            BY <1>1, <6>1
          <6>3. lastOut' - lastOut = (q + k) - delivered
            BY <1>1, <4>4, <6>1, <6>2
          <6>4. lastOut' \in Nat /\ lastOut' - lastOut <= Reach
            BY <1>1, <2>13, <4>4, <6>1, <6>2, <6>3
          <6>5. lastOut' <= SeqMod - 2
            <7> DEFINE o == lastOut'
            <7>1. o \in Nat /\ o - lastOut <= Reach
              BY <6>4
            <7> HIDE DEF o
            <7>2. o <= SeqMod - 2
              BY <1>1, <6>2, <7>1
            <7>3. QED
              BY <7>2 DEF o
          <6>6. lastOut' \in 0 .. SeqMod - 2
            <7>1. SeqMod \in Nat \ {0} /\ lastOut' \in Nat
              BY <1>1, <6>4
            <7>2. QED
              BY <6>5, <7>1
          <6>7. QED
            BY <6>2, <6>4, <6>6
        <5>2. Sorted!Distance(lastOut', 0) <= MaxDistance
          BY <3>1, <4>1
        <5>3. QED
          BY <5>1, <5>2, ZeroIsNear
      <4>6. held'[0] + lastOut' = delivered'
        BY <1>1, <2>6, <2>12, <3>1, <3>3, <4>1, <4>2, <4>3, <4>4
      <4>7. QED
        BY <3>1, <3>3, <4>1, <4>5, <4>6 DEF LeftOver
    <3>4. QED
      BY <1>10, <3>1, <3>2, <3>3
  <2>15. QED
    BY <1>3, <2>6, <2>11, <2>12, <2>14 DEF Placed, InStep
<1>14. QED
  BY <1>12, <1>13

(* A packet that sortPacket drops changes nothing.                          *)
LEMMA DroppedChangesNothing ==
  ASSUME IInv, Stream, Placed, NEW p \in Nat \ {0}, Sort(Number(p), p), Sorted!DropOld(Number(p))
  PROVE  Placed' /\ InStep
<1> DEFINE n == Number(p)
           inBuffer == [x \in DOMAIN held \union {n} |-> IF x \in DOMAIN held THEN held[x] ELSE p]
<1>1. DOMAIN held = cache
  BY Position
<1>2. out' = <<>> /\ UNCHANGED <<started, lastOut, cache>>
  BY DEF Sorted!DropOld
<1>3. output' = <<>> /\ delivered' = delivered
  <2>1. /\ output' = [i \in DOMAIN out' |->
                        IF i = 1 /\ n = Sortor!NextSeq(Sortor!Base(n)) THEN p ELSE inBuffer[out'[i]]]
        /\ delivered' = LET own == {i \in DOMAIN output' : output'[i] # 0}
                        IN  IF own = {} THEN delivered
                            ELSE output'[CHOOSE i \in own : \A j \in own : j <= i]
    BY DEF Sort
  <2>2. output' = <<>>
    BY <1>2, <2>1
  <2>3. QED
    BY <2>1, <2>2
<1>4. \A s \in cache : held'[s] = held[s]
  BY <1>1, <1>2 DEF Sort
<1>5. \A s \in cache : Fresh(s)' \/ LeftOver(s)'
  BY <1>2, <1>3, <1>4
  DEF Placed, Fresh, LeftOver, Sorted!Distance, Sorted!NextSeq, Sorted!SeqMax
<1>6. QED
  BY <1>2, <1>3, <1>5 DEF Placed, InStep, Number

(* A late packet or a copy, where the position is away from both ends of   *)
(* the numbers, is dropped.                                                *)
LEMMA OldIsDropped ==
  ASSUME IInv, Stream, Placed, NEW p \in Nat \ {0}, p \in delivered - MaxAge + 1 .. delivered,
         lastOut \in AfterGivenUp, Sorted!SortPacket(Number(p))
  PROVE  Sorted!DropOld(Number(p))
<1> DEFINE n == Number(p)
<1>1. /\ SeqMod \in Nat \ {0} /\ MaxDistance \in Nat \ {0} /\ MaxAge \in Nat \ {0}
      /\ delivered \in Nat
      /\ lastOut \in MaxDistance + MaxAge - 1 .. SeqMod - MaxDistance - 2
  BY Position, ChannelAssumption
<1>2. p \in Nat /\ p <= delivered /\ delivered - p < MaxAge /\ delivered - p < SeqMod
  BY <1>1
<1>3. started /\ lastOut = Number(delivered)
  BY <1>1, <1>2 DEF Placed
<1>4. /\ n \in 0 .. SeqMod - 1
      /\ lastOut = IF n + (delivered - p) < SeqMod THEN n + (delivered - p)
                   ELSE n + (delivered - p) - SeqMod
  BY <1>1, <1>2, <1>3, NumberAhead, NumberType
<1> HIDE DEF n
<1>5. n = lastOut - (delivered - p) /\ n >= MaxDistance
  BY <1>1, <1>2, <1>4
<1>6. Sorted!NextSeq(lastOut) = lastOut + 1
  <2>1. lastOut \in 0 .. SeqMod - 1 /\ lastOut # SeqMod - 1
    BY <1>1
  <2>2. QED
    BY <2>1, NextNumber
<1>7. n # Sorted!NextSeq(lastOut) /\ Sorted!IsOld(n)
  BY <1>1, <1>2, <1>5, <1>6 DEF Sorted!IsOld, Sorted!MayLooped, Sorted!SeqMax
<1>8. QED
  BY <1>3, <1>7 DEF Sorted!SortPacket, Sorted!OutputNext, Sorted!Buffer, Sorted!Base, n

(* What does not touch the buffer keeps everything in its place.           *)
LEMMA PlacedFrame ==
  ASSUME Placed, UNCHANGED <<started, lastOut, cache, held, delivered>>
  PROVE  Placed'
  BY DEF Placed, Fresh, LeftOver, Number, Sorted!Distance, Sorted!NextSeq, Sorted!SeqMax

(* Every step of a channel that listens to its source only.                *)
LEMMA PlacedInv ==
  ASSUME IInv, Stream, Placed, [Next]_vars, ~mixed'
  PROVE  Placed' /\ (InStep \/ UNCHANGED <<delivered, output>>)
<1>1. ASSUME NEW p \in 1 .. LastPacket, Arrive(p) \/ ArriveRtx(p)
      PROVE  Placed' /\ InStep
  <2>1. p \in Nat \ {0}
    BY ChannelAssumption
  <2>2. MayStillArrive(p) /\ Sort(Number(p), p)
    <3>1. CASE Arrive(p)
      BY <3>1 DEF Arrive, Process
    <3>2. CASE ArriveRtx(p)
      BY <3>2 DEF ArriveRtx, Process
    <3>3. QED
      BY <1>1, <3>1, <3>2
  <2>3. Sorted!SortPacket(Number(p))
    BY <2>2, SameSortPacket DEF Sort
  <2>4. CASE Sorted!DropOld(Number(p))
    BY <2>1, <2>2, <2>4, DroppedChangesNothing
  <2>5. CASE p \in delivered + 1 .. delivered + Reach
    <3>1. CASE Sorted!OutputNext(Number(p))
      BY <2>2, <2>5, <3>1, ReleaseNext
    <3>2. CASE Sorted!Buffer(Number(p))
      BY <2>2, <2>5, <3>2, KeepOrGiveUp
    <3>3. QED
      BY <2>3, <2>4, <3>1, <3>2 DEF Sorted!SortPacket
  <2>6. CASE p \in delivered - MaxAge + 1 .. delivered /\ lastOut \in AfterGivenUp
    BY <2>1, <2>3, <2>4, <2>6, OldIsDropped
  <2>7. QED
    BY <2>2, <2>5, <2>6 DEF MayStillArrive
<1>2. ASSUME NEW id \in Others, NEW n \in OtherNumbers, ForeignAccepted(id, n)
      PROVE  FALSE
  <2>1. ~mixed' /\ Accepts(id) /\ id # Source /\ NoSsrc # Source
    BY <1>2, ChannelAssumption DEF ForeignAccepted
  <2>2. ~(silent \/ ssrc # Source)
    BY <1>2, <2>1 DEF ForeignAccepted, Process
  <2>3. QED
    BY <2>1, <2>2 DEF Accepts
<1>3. CASE Tick \/ Stall
  <2>1. UNCHANGED <<started, lastOut, cache, held, delivered>> /\ output' = <<>>
    BY <1>3 DEF Tick, Stall, Sortor!Elapse, sortVars
  <2>2. QED
    BY <2>1, PlacedFrame DEF InStep
<1>4. CASE Silence \/ UNCHANGED vars
  <2>1. UNCHANGED <<started, lastOut, cache, held, delivered, output>>
    BY <1>4 DEF Silence, vars, sortVars, streamVars
  <2>2. QED
    BY <2>1, PlacedFrame
<1>5. ASSUME NEW id \in Others, ForeignDropped(id) PROVE UNCHANGED vars
  BY <1>5 DEF ForeignDropped
<1>6. QED
  BY <1>1, <1>2, <1>3, <1>4, <1>5 DEF Next

(* What one call hands over is a delivery as OrderedDelivery allows it.    *)
LEMMA InStepRefines ==
  ASSUME InStep \/ UNCHANGED <<delivered, output>>, delivered \in Nat
  PROVE  [Delivery!Deliver \/ Delivery!Withhold]_<<delivered, output>>
<1>1. CASE output' = <<>> /\ delivered' = delivered
  BY <1>1 DEF Delivery!Withhold
<1>2. ASSUME NEW q \in Nat \ {0}, NEW k \in Nat, HandsOver(q, k) PROVE Delivery!Deliver
  <2>1. /\ output' = [i \in 1 .. k + 1 |-> q + i - 1]
        /\ q > delivered /\ delivered' = q + k
    BY <1>2 DEF HandsOver
  <2>2. output' \in Seq(Nat) /\ Len(output') = k + 1
    BY <2>1
  <2>3. /\ output'[1] = q /\ output'[k + 1] = q + k
        /\ \A i \in 1 .. k : output'[i] < output'[i + 1]
    BY <2>1
  <2>4. output' # <<>>
    BY <2>2
  <2>5. QED
    BY <2>1, <2>2, <2>3, <2>4 DEF Delivery!Deliver
<1>3. QED
  BY <1>1, <1>2 DEF InStep

(* The channel keeps its promise to the decoder for streams of any length, *)
(* over any number of wraps: losses, reordering, retransmissions, copies,  *)
(* forced flushes and pauses never make it hand over a packet twice or out *)
(* of order, while it listens to one source and packets are less than half *)
(* of the numbers ahead (RtpTrack.h: sortPacket, output, flushPacket,      *)
(* forceFlush).                                                            *)
THEOREM DeliversInOrder == Spec /\ []~mixed => InOrder
<1>1. Init => Placed /\ Delivery!Init
  <2>1. Init => cache = {} /\ ~started
    BY DEF Init, Sortor!Init
  <2>2. QED
    BY <2>1 DEF Init, Placed, Delivery!Init
<1>2. IInv /\ Stream /\ Placed /\ [Next]_vars /\ ~mixed' =>
        Placed' /\ [Delivery!Deliver \/ Delivery!Withhold]_<<delivered, output>>
  <2> SUFFICES ASSUME IInv, Stream, Placed, [Next]_vars, ~mixed'
               PROVE  Placed' /\ [Delivery!Deliver \/ Delivery!Withhold]_<<delivered, output>>
    OBVIOUS
  <2>1. Placed' /\ (InStep \/ UNCHANGED <<delivered, output>>)
    BY PlacedInv
  <2>2. delivered \in Nat
    BY DEF Stream
  <2>3. QED
    BY <2>1, <2>2, InStepRefines
<1>3. Spec => [](IInv /\ Stream)
  BY Invariants, StreamHolds, PTL
<1>4. QED
  BY <1>1, <1>2, <1>3, PTL DEF Spec, InOrder, Delivery!Spec

-----------------------------------------------------------------------------
(* What a channel asks for                                                 *)

(* The numbers of the packets from one to another.                         *)
NumbersOf(i, j) == {Number(k) : k \in i .. j}

(* The NACK state stands at a packet b of the stream, and knows of none    *)
(* but those from there to the newest; what waits to be asked for again,   *)
(* and what was just asked for, are numbers of packets that were sent.     *)
Known(n, b, top) ==
  n.nackSeq = Number(b) /\ n.seq \subseteq NumbersOf(b, top)

Asked ==
  /\ newest <= delivered + Reach
  /\ newest < SeqMod =>
       /\ nack.started => \E b \in 0 .. newest : Known(nack, b, newest)
       /\ ~nack.started => nack.seq = {}
       /\ DOMAIN nack.status \union asks \subseteq NumbersOf(1, newest)

(* The number k places after a packet's is that of the k-th packet after.  *)
LEMMA NumberPlus ==
  ASSUME NEW b \in Nat, NEW k \in 0 .. SeqMod - 1
  PROVE  (Number(b) + k) % SeqMod = Number(b + k)
<1>1. SeqMod \in Nat \ {0} /\ k \in Nat
  BY ChannelAssumption
<1>2. b + k \in Nat /\ b <= b + k /\ (b + k) - b = k /\ k < SeqMod
  BY <1>1
<1>3. /\ Number(b) \in 0 .. SeqMod - 1
      /\ Number(b + k) = IF Number(b) + k < SeqMod THEN Number(b) + k
                         ELSE Number(b) + k - SeqMod
  BY <1>2, NumberAhead
<1>4. (Number(b) + k) % SeqMod = IF Number(b) + k < SeqMod THEN Number(b) + k
                                 ELSE Number(b) + k - SeqMod
  BY <1>1, <1>3, NackConstants, Nacked!Wrapping
<1>5. QED
  BY <1>3, <1>4

(* What comes right before a packet's number is that of the one before it. *)
LEMMA NumberBefore ==
  ASSUME NEW p \in Nat \ {0}
  PROVE  p - 1 \in Nat /\ (Number(p) - 1) % SeqMod = Number(p - 1)
<1>1. SeqMod \in Nat \ {0} /\ 1 < SeqMod
  BY SortorConstants
<1>2. p - 1 \in Nat /\ p - 1 <= p /\ p - (p - 1) = 1
  OBVIOUS
<1>3. /\ Number(p - 1) \in 0 .. SeqMod - 1
      /\ Number(p) = IF Number(p - 1) + 1 < SeqMod THEN Number(p - 1) + 1
                     ELSE Number(p - 1) + 1 - SeqMod
  BY <1>1, <1>2, NumberAhead
<1>4. CASE Number(p - 1) + 1 < SeqMod
  <2>1. Number(p) - 1 = Number(p - 1)
    BY <1>3, <1>4
  <2>2. QED
    BY <1>1, <1>2, <1>3, <2>1
<1>5. CASE ~(Number(p - 1) + 1 < SeqMod)
  <2>1. Number(p) - 1 = -1 /\ Number(p - 1) = SeqMod - 1
    BY <1>1, <1>3, <1>5
  <2>2. (-1) % SeqMod = SeqMod - 1
    BY <1>1
  <2>3. QED
    BY <1>2, <2>1, <2>2
<1>6. QED
  BY <1>4, <1>5

(* The numbers after a packet's are those of the packets after it.         *)
LEMMA AfterIsNumbers ==
  ASSUME NEW b \in Nat, NEW h \in 0 .. SeqMod - 1, NEW i \in Nat
  PROVE  /\ Nacked!After(Number(b), i, h) \subseteq NumbersOf(b + i, b + h)
         /\ NumbersOf(b + i, b + h) \subseteq Nacked!After(Number(b), i, h)
<1>1. SeqMod \in Nat \ {0}
  BY ChannelAssumption
<1>2. ASSUME NEW k \in i .. h
      PROVE  b + k \in b + i .. b + h /\ (Number(b) + k) % SeqMod = Number(b + k)
  <2>1. k \in 0 .. SeqMod - 1
    BY <1>1
  <2>2. QED
    BY <2>1, NumberPlus
<1>3. ASSUME NEW x \in b + i .. b + h
      PROVE  x - b \in i .. h /\ Number(x) = (Number(b) + (x - b)) % SeqMod
  <2>1. x - b \in i .. h /\ b + (x - b) = x
    BY <1>1
  <2>2. QED
    BY <1>2, <2>1
<1>4. QED
  BY <1>2, <1>3 DEF Nacked!After, NumbersOf

(* A packet that comes not long before b is not taken for a wrap.          *)
LEMMA LateIsNoWrap ==
  ASSUME 2 * WrapWindow + Reach + MaxAge <= SeqMod, NEW n, NEW b \in Nat, NEW p \in Nat,
         n.nackSeq = Number(b), Nacked!Wrapped(n, Number(p)), b - p < Reach + MaxAge
  PROVE  b <= p
<1>1. {SeqMod, WrapWindow} \subseteq Nat \ {0} /\ Reach \in Nat /\ MaxAge \in Nat
  BY ChannelAssumption
<1>2. SUFFICES ASSUME p < b PROVE FALSE
  OBVIOUS
<1>3. p <= b /\ b - p < SeqMod
  BY <1>1, <1>2
<1>4. /\ Number(p) \in 0 .. SeqMod - 1 /\ Number(b) \in 0 .. SeqMod - 1
      /\ Number(b) = IF Number(p) + (b - p) < SeqMod THEN Number(p) + (b - p)
                     ELSE Number(p) + (b - p) - SeqMod
  BY <1>3, NumberAhead
<1>5. Number(p) < Number(b) /\ Number(p) < WrapWindow /\ Number(b) > SeqMod - 1 - WrapWindow
  BY DEF Nacked!Wrapped, Nacked!SeqMax
<1>6. QED
  BY <1>1, <1>3, <1>4, <1>5

(* received() for a packet of the stream that is the newest, or is not far *)
(* behind the output: the NACK state stands at a packet again, and knows   *)
(* and asks for nothing beyond the newest.                                 *)
LEMMA ReceivedAsks ==
  ASSUME 2 * WrapWindow + Reach + MaxAge <= SeqMod,
         Nacked!IInv, Stream, Asked, NEW p \in Nat \ {0}, NEW top, top = Newest(p), top < SeqMod,
         NEW isRtx \in BOOLEAN, ~isRtx => p >= newest, p > delivered - MaxAge
  PROVE  LET r == Nacked!Received(nack, Number(p), isRtx)
         IN  /\ \E b \in 0 .. top : Known(r.ctx, b, top)
             /\ r.ctx.started = TRUE
             /\ r.asks \subseteq NumbersOf(1, top)
             /\ DOMAIN r.ctx.status \subseteq NumbersOf(1, top)
<1> DEFINE s == Number(p)
           n == Nacked!Begun(nack, s)
           r == Nacked!Received(nack, s, isRtx)
<1>1. /\ SeqMod \in Nat \ {0} /\ Reach \in Nat /\ MaxAge \in Nat
      /\ newest \in Nat /\ delivered \in Nat
      /\ top \in Nat /\ newest <= top /\ p <= top /\ (p >= newest => top = p)
  BY ChannelAssumption DEF Stream, Newest
<1>2. nack \in Nacked!Contexts /\ s \in Nacked!Seqs
  BY NumberType DEF Nacked!IInv, Nacked!Seqs
<1>3. /\ nack.started => \E b \in 0 .. newest : Known(nack, b, newest)
      /\ ~nack.started => nack.seq = {}
      /\ DOMAIN nack.status \subseteq NumbersOf(1, newest)
      /\ newest <= delivered + Reach
  BY <1>1 DEF Asked
(* Where received begins.                                                  *)
<1>4. PICK b \in 0 .. top :
        /\ Known(n, b, top) /\ n.started = TRUE /\ n.status = nack.status
        /\ b <= newest \/ b < p
  <2>1. CASE nack.started
    <3>1. PICK x \in 0 .. newest : Known(nack, x, newest)
      BY <1>3, <2>1
    <3>2. NumbersOf(x, newest) \subseteq NumbersOf(x, top)
      BY <1>1 DEF NumbersOf
    <3>3. n = nack /\ nack.started = TRUE
      BY <1>2, <2>1 DEF Nacked!Begun, Nacked!Contexts
    <3>4. x \in 0 .. top /\ x <= newest
      BY <1>1, <3>1
    <3>5. Known(n, x, top)
      BY <3>1, <3>2, <3>3 DEF Known
    <3>6. QED
      BY <3>3, <3>4, <3>5
  <2>2. CASE ~nack.started
    <3>1. n = [nack EXCEPT !.started = TRUE, !.nackSeq = (s - 1) % SeqMod]
      BY <2>2 DEF Nacked!Begun
    <3>2. /\ n.nackSeq = (s - 1) % SeqMod /\ n.seq = {} /\ n.started = TRUE
          /\ n.status = nack.status
      BY <1>2, <1>3, <2>2, <3>1 DEF Nacked!Contexts
    <3>3. p - 1 \in 0 .. top /\ (s - 1) % SeqMod = Number(p - 1) /\ p - 1 < p
      BY <1>1, NumberBefore
    <3>4. QED
      BY <3>2, <3>3 DEF Known
  <2>3. QED
    BY <2>1, <2>2
<1> DEFINE h == top - b
<1>5. b \in Nat /\ h \in 0 .. SeqMod - 1 /\ b + h = top
  BY <1>1
<1> HIDE DEF s, n, h, r
<1>6. n.seq \subseteq Nacked!After(n.nackSeq, 0, h)
  <2>1. NumbersOf(b + 0, b + h) \subseteq Nacked!After(Number(b), 0, h)
    BY <1>5, AfterIsNumbers
  <2>2. b + 0 = b
    BY <1>5
  <2>3. QED
    BY <1>4, <1>5, <2>1, <2>2 DEF Known
<1>7. ASSUME b <= p PROVE p - b \in 0 .. h /\ s = (n.nackSeq + (p - b)) % SeqMod
  <2>1. p - b \in 0 .. SeqMod - 1 /\ p - b \in 0 .. h /\ b + (p - b) = p
    BY <1>1, <1>5, <1>7
  <2>2. (Number(b) + (p - b)) % SeqMod = Number(b + (p - b))
    BY <1>5, <2>1, NumberPlus
  <2>3. QED
    BY <1>4, <2>1, <2>2 DEF Known, s
<1>8. Nacked!Wrapped(n, s) => s \in Nacked!After(n.nackSeq, 0, h)
  <2>1. SUFFICES ASSUME Nacked!Wrapped(n, s) PROVE b <= p
    BY <1>7 DEF Nacked!After
  <2>2. b - p < Reach + MaxAge
    BY <1>1, <1>3, <1>4, <1>5
  <2>3. n.nackSeq = Number(b)
    BY <1>4 DEF Known
  <2>4. QED
    BY <1>5, <2>1, <2>2, <2>3, LateIsNoWrap DEF s
<1>9. ~isRtx => s = (n.nackSeq + h) % SeqMod
  <2>1. SUFFICES ASSUME ~isRtx PROVE b <= p /\ p - b = h
    BY <1>7
  <2>2. top = p
    BY <1>1, <2>1
  <2>3. QED
    BY <1>1, <1>5, <2>2 DEF h
<1>10. PICK a \in 0 .. h : Nacked!Within(n, h, r, a)
  BY <1>2, <1>5, <1>6, <1>8, <1>9, NackConstants, Nacked!ReceivedWithin DEF n, r
<1>11. /\ r.ctx.nackSeq = (Number(b) + a) % SeqMod
       /\ r.ctx.seq \subseteq Nacked!After(Number(b), a, h)
       /\ r.asks \subseteq Nacked!After(Number(b), 1, h)
       /\ DOMAIN r.ctx.status \subseteq DOMAIN nack.status \union r.asks
       /\ r.ctx.started = TRUE
  BY <1>4, <1>10 DEF Nacked!Within, Known
<1>12. a \in 0 .. SeqMod - 1 /\ a \in Nat /\ b + a \in 0 .. top
  BY <1>1, <1>5
<1>13. Known(r.ctx, b + a, top)
  <2>1. r.ctx.nackSeq = Number(b + a)
    BY <1>5, <1>11, <1>12, NumberPlus
  <2>2. r.ctx.seq \subseteq NumbersOf(b + a, top)
    BY <1>5, <1>11, <1>12, AfterIsNumbers
  <2>3. QED
    BY <2>1, <2>2 DEF Known
<1>14. r.asks \subseteq NumbersOf(1, top)
  <2>1. Nacked!After(Number(b), 1, h) \subseteq NumbersOf(b + 1, top)
    BY <1>5, AfterIsNumbers
  <2>2. NumbersOf(b + 1, top) \subseteq NumbersOf(1, top)
    BY <1>5 DEF NumbersOf
  <2>3. QED
    BY <1>11, <2>1, <2>2
<1>15. NumbersOf(1, newest) \subseteq NumbersOf(1, top)
  BY <1>1 DEF NumbersOf
<1>16. QED
  BY <1>3, <1>11, <1>12, <1>13, <1>14, <1>15 DEF r, s

(* The whole call, with reSendNack when it is due.                         *)
LEMMA ProcessAsks ==
  ASSUME 2 * WrapWindow + Reach + MaxAge <= SeqMod,
         Nacked!IInv, Stream, Asked, NEW p \in Nat \ {0}, NEW isRtx \in BOOLEAN,
         Process(Number(p), p, isRtx), ~isRtx => p >= newest,
         p > delivered - MaxAge, newest' <= delivered' + Reach
  PROVE  Asked'
<1> DEFINE n == Number(p)
           r == Nacked!Received(nack, n, isRtx)
           a == Nacked!ReSendNack(r.ctx)
<1>1. newest' = Newest(p) /\ NackStep(n, isRtx)
  BY DEF Process, NackStep
<1>2. Nack!Become(IF nackDue THEN [a EXCEPT !.asks = a.asks \union r.asks] ELSE r)
  BY <1>1, SameReceived, SameReSendNack DEF NackStep
<1>3. SUFFICES ASSUME newest' < SeqMod
               PROVE  /\ \E b \in 0 .. newest' : Known(nack', b, newest')
                      /\ nack'.started = TRUE
                      /\ DOMAIN nack'.status \union asks' \subseteq NumbersOf(1, newest')
  BY DEF Asked, Known, NumbersOf, Number
<1>4. /\ \E b \in 0 .. newest' : Known(r.ctx, b, newest')
      /\ r.ctx.started = TRUE
      /\ r.asks \subseteq NumbersOf(1, newest')
      /\ DOMAIN r.ctx.status \subseteq NumbersOf(1, newest')
  BY <1>1, <1>3, ReceivedAsks
<1>5. r \in Nacked!Results /\ r.ctx \in Nacked!Contexts
  <2>1. nack \in Nacked!Contexts /\ n \in Nacked!Seqs
    BY NumberType DEF Nacked!IInv, Nacked!Seqs
  <2>2. r \in Nacked!Results
    BY <2>1, NackConstants, Nacked!ReceivedProperty
  <2>3. QED
    BY <2>2 DEF Nacked!Results
<1> HIDE DEF n, r
<1>6. CASE ~nackDue
  <2>1. nack' = r.ctx /\ asks' = r.asks
    BY <1>2, <1>6 DEF Nack!Become
  <2>2. QED
    BY <1>4, <2>1
<1>7. CASE nackDue
  <2>1. /\ a.ctx.nackSeq = r.ctx.nackSeq /\ a.ctx.seq = r.ctx.seq
        /\ a.ctx.started = r.ctx.started
        /\ a.asks \subseteq DOMAIN r.ctx.status
        /\ DOMAIN a.ctx.status \subseteq DOMAIN r.ctx.status
    BY <1>5, NackConstants, Nacked!ReSendWithin
  <2>2. a \in Nacked!Results
    BY <1>5, NackConstants, Nacked!ReSendType
  <2> HIDE DEF a
  <2>3. nack' = a.ctx /\ asks' = a.asks \union r.asks
    BY <1>2, <1>7, <2>2 DEF Nack!Become, Nacked!Results
  <2>4. PICK b \in 0 .. newest' : Known(r.ctx, b, newest')
    BY <1>4
  <2>5. Known(nack', b, newest')
    BY <2>1, <2>3, <2>4 DEF Known
  <2>6. QED
    BY <1>4, <2>1, <2>3, <2>4, <2>5
<1>8. QED
  BY <1>6, <1>7

(* What does not touch the NACK state keeps what it knows.                 *)
LEMMA AskedFrame ==
  ASSUME Asked, UNCHANGED <<newest, delivered>>,
         nack'.started = nack.started, nack'.nackSeq = nack.nackSeq, nack'.seq = nack.seq,
         DOMAIN nack'.status = DOMAIN nack.status, asks' \subseteq asks
  PROVE  Asked'
<1>1. /\ newest' <= delivered' + Reach
      /\ newest' < SeqMod =>
           /\ nack'.started => \E b \in 0 .. newest' : Known(nack', b, newest')
           /\ ~nack'.started => nack'.seq = {}
           /\ DOMAIN nack'.status \union asks' \subseteq NumbersOf(1, newest')
  BY DEF Asked, Known
<1>2. QED
  BY <1>1 DEF Asked, Known, NumbersOf, Number

(* What was close to the output is close to it when it has moved on.       *)
LEMMA StillClose ==
  ASSUME NEW top \in Nat, NEW at \in Nat, NEW next \in Nat, NEW reach \in Nat,
         at <= next, top <= at + reach
  PROVE  top <= next + reach
  OBVIOUS

(* Every step of a channel that listens to its source only.                *)
LEMMA AskedInv ==
  ASSUME MaxLate = 0, 2 * WrapWindow + Reach + MaxAge <= SeqMod,
         IInv, Nacked!IInv, Stream, Stream', Placed, Asked, [Next]_vars, ~mixed'
  PROVE  Asked'
<1>1. ASSUME NEW p \in 1 .. LastPacket, Arrive(p) \/ ArriveRtx(p) PROVE Asked'
  <2>1. p \in Nat \ {0}
    BY ChannelAssumption
  <2>2. PICK isRtx \in BOOLEAN : Process(Number(p), p, isRtx) /\ (~isRtx => p >= newest)
    <3>1. CASE Arrive(p)
      <4>1. p + MaxLate >= newest /\ Process(Number(p), p, FALSE)
        BY <3>1 DEF Arrive
      <4>2. p >= newest
        BY <2>1, <4>1 DEF Stream
      <4>3. QED
        BY <4>1, <4>2
    <3>2. CASE ArriveRtx(p)
      BY <3>2 DEF ArriveRtx
    <3>3. QED
      BY <1>1, <3>1, <3>2
  <2>3. delivered \in Nat /\ delivered' \in Nat /\ Reach \in Nat /\ MaxAge \in Nat \ {0}
    BY ChannelAssumption DEF Stream
  <2>4. p > delivered - MaxAge /\ p <= delivered + Reach
    <3>1. MayStillArrive(p)
      BY <1>1 DEF Arrive, ArriveRtx
    <3>2. QED
      BY <2>1, <2>3, <3>1 DEF MayStillArrive
  <2>5. delivered <= delivered'
    <3>1. InStep \/ UNCHANGED <<delivered, output>>
      BY PlacedInv
    <3>2. QED
      BY <2>3, <3>1 DEF InStep, HandsOver
  <2>6. newest' <= delivered' + Reach
    <3>1. newest \in Nat /\ newest <= delivered + Reach
      BY DEF Stream, Asked
    <3>2. newest' = Newest(p)
      BY <2>2 DEF Process
    <3>3. newest' <= delivered + Reach
      BY <2>4, <3>1, <3>2 DEF Newest
    <3>4. newest' \in Nat
      BY <2>1, <3>1, <3>2 DEF Newest
    <3>5. QED
      BY <2>3, <2>5, <3>3, <3>4, StillClose
  <2>7. QED
    BY <2>1, <2>2, <2>4, <2>6, ProcessAsks
<1>2. ASSUME NEW id \in Others, NEW n \in OtherNumbers, ForeignAccepted(id, n)
      PROVE  FALSE
  <2>1. ~mixed' /\ Accepts(id) /\ id # Source /\ NoSsrc # Source
    BY <1>2, ChannelAssumption DEF ForeignAccepted
  <2>2. ~(silent \/ ssrc # Source)
    BY <1>2, <2>1 DEF ForeignAccepted, Process
  <2>3. QED
    BY <2>1, <2>2 DEF Accepts
<1>3. CASE Tick
  <2>1. nack \in Nacked!Contexts
    BY DEF Nacked!IInv
  <2>2. nack' = Nacked!Older(nack) /\ asks' = {} /\ UNCHANGED <<newest, delivered>>
    BY <1>3, SameOlder DEF Tick
  <2>3. QED
    BY <2>1, <2>2, NackConstants, Nacked!OlderWithin, AskedFrame
<1>4. CASE Stall \/ Silence \/ UNCHANGED vars
  <2>1. UNCHANGED <<nack, newest, delivered>> /\ asks' \subseteq asks
    BY <1>4 DEF Stall, Silence, vars, nackVars, streamVars
  <2>2. QED
    BY <2>1, AskedFrame
<1>5. ASSUME NEW id \in Others, ForeignDropped(id) PROVE UNCHANGED vars
  BY <1>5 DEF ForeignDropped
<1>6. QED
  BY <1>1, <1>2, <1>3, <1>4, <1>5 DEF Next

(* The NACK state never runs ahead of the stream, however long its windows *)
(* and its losses: in the first round of numbers it asks for nothing but   *)
(* packets sent before the newest one that arrived, when only              *)
(* retransmissions come late and what is under way and the two ends where  *)
(* a wrap is looked for are fewer than the numbers (NackContext.h:         *)
(* received, makeNack, reSendNack).                                        *)
THEOREM AsksForThePast ==
  ASSUME MaxLate = 0, 2 * WrapWindow + Reach + MaxAge <= SeqMod
  PROVE  Spec => []AsksOnlyForThePast
<1> DEFINE Listening == ~mixed => Placed /\ Asked
<1>1. Init => Listening
  <2>1. Init => cache = {} /\ ~started /\ nack = Nack!EmptyNack /\ asks = {}
    BY DEF Init, Sortor!Init, Nack!Init
  <2>2. SUFFICES ASSUME Init PROVE Placed /\ Asked
    OBVIOUS
  <2>3. Placed
    BY <2>1, <2>2 DEF Init, Placed
  <2>4. /\ nack.started = FALSE /\ nack.seq = {} /\ DOMAIN nack.status = {} /\ asks = {}
        /\ newest = 0 /\ delivered = 0
    BY <2>1, <2>2 DEF Init, Nack!EmptyNack
  <2>5. Asked
    BY <2>4, ChannelAssumption DEF Asked
  <2>6. QED
    BY <2>3, <2>5
<1>2. IInv /\ Nacked!IInv /\ Stream /\ Stream' /\ Listening /\ [Next]_vars => Listening'
  <2> SUFFICES ASSUME IInv, Nacked!IInv, Stream, Stream', Listening, [Next]_vars, ~mixed'
               PROVE  Placed' /\ Asked'
    OBVIOUS
  <2>1. ~mixed
    BY DEF Next, Arrive, ArriveRtx, ForeignDropped, ForeignAccepted, Process, Tick, Stall,
           Silence, vars, streamVars
  <2>2. QED
    BY <2>1, PlacedInv, AskedInv
<1>3. Stream /\ Listening => AsksOnlyForThePast
  <2> SUFFICES ASSUME Stream, ~mixed, Asked, newest < SeqMod, NEW n \in asks
               PROVE  \E p \in 1 .. newest : Number(p) = n
    BY DEF AsksOnlyForThePast
  <2>1. QED
    BY DEF Asked, NumbersOf
<1> HIDE DEF Listening
<1>4. Spec => [](IInv /\ Nacked!IInv /\ Stream)
  BY Invariants, StreamHolds, PTL
<1>5. QED
  BY <1>1, <1>2, <1>3, <1>4, PTL DEF Spec

===============================================================================
