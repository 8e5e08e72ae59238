--------------------------- MODULE ReceiverReport ---------------------------
(***************************************************************************)
(* What a channel counts for its receiver reports: RtcpContextForRecv of   *)
(* src/rtcp/RtcpContext.cpp.  Jitter, times and the fraction lost, which   *)
(* nothing else depends on, are left out.                                  *)
(***************************************************************************)
EXTENDS Integers

CONSTANTS
  SeqMod,    \* 2^16 in the code
  HighEdge,  \* 0xFF00: a wrap starts above it
  LowEdge,   \* 0xFF: and ends below it
  MinCycle   \* 0x1FFF: more packets than this between two wraps

NoneCounted == [base |-> 0, max |-> 0, cycles |-> 0, lastCycle |-> 0, last |-> 0, packets |-> 0]

(* A wrap is told by the two ends of the range, and by how long ago the     *)
(* last one was.                                                           *)
Wraps(ctx, seq) ==
  /\ ctx.last > HighEdge /\ seq < LowEdge
  /\ ctx.cycles = 0 \/ ctx.packets - ctx.lastCycle > MinCycle

CountedMaxKept(ctx, seq) ==
  [ cycles    |-> IF Wraps(ctx, seq) THEN ctx.cycles + 1 ELSE ctx.cycles,
    lastCycle |-> IF Wraps(ctx, seq) THEN ctx.packets ELSE ctx.lastCycle,
    max       |-> IF seq > ctx.max THEN seq ELSE ctx.max,
    base      |-> IF ctx.base = 0 THEN seq ELSE ctx.base,
    last      |-> seq,
    packets   |-> ctx.packets + 1 ]

(* onRtp. Base 0 stands for no packet yet.                                 *)
Counted(ctx, seq) ==
  LET wraps  == Wraps(ctx, seq)
      cycles == IF wraps THEN ctx.cycles + 1 ELSE ctx.cycles
  IN  [ cycles    |-> cycles,
        lastCycle |-> IF wraps THEN ctx.packets ELSE ctx.lastCycle,
        max       |-> IF wraps \/ seq > ctx.max THEN seq ELSE ctx.max,
        base      |-> IF ctx.base = 0 \/ (cycles = 0 /\ seq < ctx.base) THEN seq ELSE ctx.base,
        last      |-> seq,
        packets   |-> ctx.packets + 1 ]

ExpectedPackets(ctx) == ctx.cycles * SeqMod + ctx.max - ctx.base + 1
LostPackets(ctx) == ExpectedPackets(ctx) - ctx.packets
=============================================================================
