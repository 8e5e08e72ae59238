---------------------------- MODULE PacketSortor ----------------------------
(***************************************************************************)
(* The reorder buffer of a receive channel: PacketSortor<T, SEQ> of        *)
(* src/rtp/RtpTrack.h.  A packet is its sequence number: two packets with  *)
(* the same number are copies, and std::map::emplace keeps the first.      *)
(* The ticker (time since the last output) is only ever compared with      *)
(* _max_buffer_ms, so it is the flag "stale", raised by Elapse and lowered *)
(* by output() and clear().  _latest_seq is written and only ever logged,  *)
(* and is left out.                                                        *)
(***************************************************************************)
EXTENDS Integers, Sequences, FiniteSets

CONSTANTS
  SeqMod,         \* 2^16 in the code: SEQ_MAX + 1
  MaxDistance,    \* _max_distance, 512 on an RtpChannel
  MaxBufferSize   \* _max_buffer_size, 1024 on an RtpChannel

ASSUME SortorAssumption ==
  /\ SeqMod \in Nat /\ MaxDistance \in Nat \ {0} /\ MaxBufferSize \in Nat \ {0}
  /\ 4 * MaxDistance < SeqMod

VARIABLES
  started,   \* _started: a first packet fixed the numbering
  lastOut,   \* _last_seq_out
  cache,     \* keys of _pkt_sort_cache_map
  stale,     \* _ticker->elapsedTime() > _max_buffer_ms
  out        \* the calls of _cb made by the last operation, in order

sortVars == <<started, lastOut, cache, stale, out>>

Seqs   == 0 .. SeqMod - 1
SeqMax == SeqMod - 1

-----------------------------------------------------------------------------
(* static_cast<SEQ>(_last_seq_out + 1) *)
NextSeq(last) == (last + 1) % SeqMod

(* distance(seq): how far seq is from the next number, the short way round *)
Distance(last, seq) ==
  LET next == NextSeq(last)
      ret  == IF seq > next THEN seq - next ELSE next - seq
  IN  IF ret > SeqMax \div 2 THEN SeqMax - ret ELSE ret

MayLoopedLow(from, to) == to < MaxDistance
MayLooped(from, to) == from > SeqMax - MaxDistance \/ to < MaxDistance

NeedForceFlushNoSize(c, last, seq) == Distance(last, seq) > MaxDistance \/ stale
NeedForceFlush(c, last, seq) ==
  /\ c # {}
  /\ \/ Cardinality(c) > MaxBufferSize
     \/ Distance(last, seq) > MaxDistance
     \/ stale

(* std::map::lower_bound(next), or begin() when it is end() *)
FlushTargetBegin(c, next) == CHOOSE s \in c : \A t \in c : s <= t
FlushTargetNewest(c, next) == CHOOSE s \in c : \A t \in c : s >= t
FlushTarget(c, next) ==
  LET above == {s \in c : s >= next}
      from  == IF above # {} THEN above ELSE c
  IN  CHOOSE s \in from : \A t \in from : s <= t

(* flushPacket drops what is numerically behind next, but not near a wrap *)
Kept(c, next) == IF MayLooped(next, next) THEN c ELSE {s \in c : s >= next}

(* The pop loop of flushPacket stops at the first number that is missing;  *)
(* it walks the map upwards and never goes from its end to its beginning.  *)
FirstGapNone(c, next) == next
FirstGap(c, next) ==
  CHOOSE k \in next .. SeqMod : k \notin c /\ next .. (k - 1) \subseteq c

NumbersOneMore(from, to) == [i \in 1 .. (to - from + 2) |-> from + i - 1]
Numbers(from, to) == [i \in 1 .. (to - from + 1) |-> from + i - 1]

-----------------------------------------------------------------------------
(* output(seq) followed by flushPacket() on the map c: what _last_seq_out, *)
(* the map and the callback calls become.                                  *)
Emit(c, seq) ==
  LET next == NextSeq(seq)
      kept == Kept(c, next)
      gap  == FirstGap(kept, next)
  IN  [ last  |-> IF gap = next THEN seq ELSE gap - 1,
        cache |-> kept \ (next .. gap - 1),
        out   |-> <<seq>> \o Numbers(next, gap - 1) ]

(* forceFlush(next): give up on what is missing before the target, then    *)
(* erase whatever is too far from the new position.                        *)
ForceFlush(c, next) ==
  LET target == FlushTarget(c, next)
      e      == Emit(c \ {target}, target)
      near   == {s \in e.cache : Distance(e.last, s) <= MaxDistance}
  IN  [last |-> e.last, cache |-> near, out |-> e.out]

(* The numbering sortPacket works with: its first packet defines it. *)
Base(seq) == IF started THEN lastOut ELSE (seq - 1) % SeqMod

Apply(e) ==
  /\ lastOut' = e.last
  /\ cache' = e.cache
  /\ out' = e.out
  /\ stale' = FALSE

(* sortPacket: the number that was waited for *)
OutputNext(seq) ==
  /\ seq = NextSeq(Base(seq))
  /\ started' = TRUE
  /\ Apply(Emit(cache, seq))

(* sortPacket: "no risk of a wrap, filter packets that go back" *)
IsOld(seq) == seq < NextSeq(lastOut) /\ ~MayLooped(NextSeq(lastOut), seq)

DropOld(seq) ==
  /\ started
  /\ IsOld(seq)
  /\ out' = <<>>
  /\ UNCHANGED <<started, lastOut, cache, stale>>

(* sortPacket: any other packet is kept, and may force a flush *)
Buffer(seq) ==
  /\ started
  /\ seq # NextSeq(lastOut)
  /\ ~IsOld(seq)
  /\ UNCHANGED started
  /\ LET c == cache \union {seq}
     IN  IF NeedForceFlush(c, lastOut, seq)
         THEN Apply(ForceFlush(c, NextSeq(lastOut)))
         ELSE /\ cache' = c
              /\ out' = <<>>
              /\ UNCHANGED <<lastOut, stale>>

SortPacket(seq) == OutputNext(seq) \/ DropOld(seq) \/ Buffer(seq)

(* flush() *)
Flush ==
  /\ cache # {}
  /\ UNCHANGED started
  /\ Apply([ForceFlush(cache, NextSeq(lastOut)) EXCEPT !.cache = {}])

(* clear(): _last_seq_out is left, the next packet redefines it *)
Clear ==
  /\ started' = FALSE
  /\ cache' = {}
  /\ stale' = FALSE
  /\ out' = <<>>
  /\ UNCHANGED lastOut

(* More than _max_buffer_ms pass without an output. *)
Elapse ==
  /\ ~stale
  /\ stale' = TRUE
  /\ out' = <<>>
  /\ UNCHANGED <<started, lastOut, cache>>

Init ==
  /\ started = FALSE
  /\ lastOut = 0
  /\ cache = {}
  /\ stale = FALSE
  /\ out = <<>>

Next ==
  \/ \E seq \in Seqs : SortPacket(seq)
  \/ Flush
  \/ Clear
  \/ Elapse

Spec == Init /\ [][Next]_sortVars

-----------------------------------------------------------------------------
TypeOK ==
  /\ started \in BOOLEAN
  /\ lastOut \in Seqs
  /\ cache \in SUBSET Seqs
  /\ stale \in BOOLEAN
  /\ out \in Seq(Seqs)

(* s is ahead of position n when the short way round from n to s is up. *)
AheadBy(n, s) == (s - n) % SeqMod
Ahead(n, s)   == AheadBy(n, s) <= SeqMax \div 2

(***************************************************************************)
(* sortPacket means to flush every consecutive packet (RtpTrack.h:61): what *)
(* is next in line is never left waiting.  The one exception is packet 0,  *)
(* because flushPacket does not go from the end of the map to its start.   *)
(***************************************************************************)
OnlyZeroIsHeld ==
  started /\ NextSeq(lastOut) \in cache => NextSeq(lastOut) = 0

(***************************************************************************)
(* The jitter buffer never outgrows _max_buffer_size between two inputs,   *)
(* whatever arrives: each insertion over the limit pops at least one.      *)
(***************************************************************************)
BufferBound == Cardinality(cache) <= MaxBufferSize

(***************************************************************************)
(* What a call to sortPacket discards: taken out of the buffer, or passed  *)
(* in, and neither output nor kept.                                        *)
(***************************************************************************)
Emitted == {out'[i] : i \in DOMAIN out'}
Lost(seq) == (cache \union {seq}) \ (cache' \union Emitted)
Behind(n, s) == ~Ahead(n, s)

(***************************************************************************)
(* flushPacket empties the map below next_seq only where there is "no risk *)
(* of a wrap" (RtpTrack.h:143): a packet within reach of the position the  *)
(* call started from is never thrown away; it is output, kept, or already  *)
(* passed over.                                                            *)
(***************************************************************************)
NoLossWithinReach ==
  [][\A seq \in Seqs : SortPacket(seq) =>
       \A s \in Lost(seq) : \/ Behind(NextSeq(lastOut'), s)
                            \/ AheadBy(NextSeq(Base(seq)), s) > MaxDistance
    ]_sortVars

(***************************************************************************)
(* When the packet that arrives is ahead of the position, what it releases *)
(* starts ahead of the position: neither loss, nor a wrap, nor old copies  *)
(* waiting in the buffer make such an arrival move the output back.        *)
(***************************************************************************)
StartsAhead == out' # <<>> => Ahead(NextSeq(lastOut), out'[1])

ForwardOnly ==
  [][\A seq \in Seqs :
       started /\ SortPacket(seq) /\ Ahead(NextSeq(lastOut), seq) => StartsAhead
    ]_sortVars
=============================================================================
