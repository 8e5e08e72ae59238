------------------------------- MODULE TwccFci -------------------------------
(***************************************************************************)
(* The body of a transport-wide feedback message: FCI_TWCC::create writes  *)
(* it, and getPacketChunkList reads it (RtcpFCI.cpp).                      *)
(*                                                                         *)
(* Statuses are a sequence, one for each number from the base on, of a     *)
(* symbol and a delta.  The symbols are packed into chunks: a run is one   *)
(* symbol n times; a vector has a field of VectorBits bits, with one bit   *)
(* for each symbol or, when it is wide, two.  The deltas of the packets    *)
(* that were received follow in one byte or two, as their symbols say.     *)
(***************************************************************************)
EXTENDS Integers, Sequences, FiniteSets, FiniteSetsExt, Functions

CONSTANTS
  VectorBits,   \* bits in the field of a vector chunk, 14 in the code
  MinRun,       \* a run is worth its chunk from this length, 7 in the code
  MaxRun        \* the longest run, 2^13 - 1 in the code

ASSUME FciAssumption ==
  VectorBits \in Nat \ {0, 1} /\ {MinRun, MaxRun} \subseteq Nat \ {0} /\ MaxRun >= MinRun

NotReceived == "not_received"
SmallDelta  == "small_delta"
LargeDelta  == "large_delta"

Status(symbol, delta) == [symbol |-> symbol, delta |-> delta]
Received(s) == s.symbol # NotReceived

-----------------------------------------------------------------------------
(* create *)
RunLength(ss, i) ==
  Max({n \in 1 .. Min({MaxRun, Len(ss) - i + 1}) :
         \A j \in i .. i + n - 1 : ss[j].symbol = ss[i].symbol})

Width(symbols) == IF LargeDelta \in Range(symbols) THEN 2 ELSE 1
SymbolsOf(ss)  == [i \in DOMAIN ss |-> ss[i].symbol]

(* A vector takes symbols until its field is full at the width it has by   *)
(* then, so a first large delta late in the field makes it too wide.       *)
VectorEnd(ss, i) ==
  Min({Len(ss)} \union
      {j \in i .. Len(ss) : (j - i + 1) * Width(SymbolsOf(SubSeq(ss, i, j))) >= VectorBits})

Run(symbol, n)  == [run |-> TRUE, symbols |-> [i \in 1 .. n |-> symbol], width |-> 2]
Vector(symbols) == [run |-> FALSE, symbols |-> symbols, width |-> Width(symbols)]

ChunkAt(ss, i) ==
  IF RunLength(ss, i) >= MinRun
  THEN Run(ss[i].symbol, RunLength(ss, i))
  ELSE Vector(SymbolsOf(SubSeq(ss, i, VectorEnd(ss, i))))

(* Pieces joined in a row: the first, the one whose place it names, and so *)
(* on until a place after the last one.                                    *)
Joined(pieces, next) ==
  LET from[i \in 1 .. Len(pieces) + 1] ==
        IF i > Len(pieces) THEN << >> ELSE pieces[i] \o from[next[i]]
  IN  from[1]
Flat(pieces) == Joined(pieces, [i \in DOMAIN pieces |-> i + 1])

Chunks(ss) ==
  Joined([i \in 1 .. Len(ss) |-> <<ChunkAt(ss, i)>>],
         [i \in 1 .. Len(ss) |-> i + Len(ChunkAt(ss, i).symbols)])
Deltas(ss) == Flat([i \in 1 .. Len(ss) |-> IF Received(ss[i]) THEN <<ss[i]>> ELSE << >>])

CreateFci(base, refTime, pktCount, ss) ==
  [base |-> base, refTime |-> refTime, pktCount |-> pktCount, count |-> Len(ss),
   chunks |-> Chunks(ss), deltas |-> Deltas(ss)]

-----------------------------------------------------------------------------
(* getPacketChunkList.  A vector that is too long for its field has lost   *)
(* the symbols at its end: shifting them by a negative count is undefined, *)
(* and leaves no bit of them in the field with the compilers in use.       *)
Capacity(chunk) == VectorBits \div chunk.width
Fits(chunk) == chunk.run \/ Len(chunk.symbols) <= Capacity(chunk)

ReadChunk(chunk) ==
  IF chunk.run THEN chunk.symbols
  ELSE [i \in 1 .. Capacity(chunk) |->
          IF i \in DOMAIN chunk.symbols THEN chunk.symbols[i] ELSE NotReceived]

ReadSymbols(fci) == Flat([i \in 1 .. Len(fci.chunks) |-> ReadChunk(fci.chunks[i])])

(* A symbol without its delta, or a delta without its symbol, shifts all   *)
(* the bytes that follow.                                                  *)
Garbled == << >>
ReadFci(fci) ==
  LET symbols  == ReadSymbols(fci)
      received(i) == {j \in 1 .. i : symbols[j] # NotReceived}
      place(i) == Cardinality(received(i))
  IN  IF \/ Len(symbols) < fci.count
         \/ place(fci.count) # Len(fci.deltas)
         \/ \E i \in received(fci.count) : fci.deltas[place(i)].symbol # symbols[i]
      THEN Garbled
      ELSE [i \in 1 .. fci.count |->
              IF symbols[i] = NotReceived THEN Status(NotReceived, 0) ELSE fci.deltas[place(i)]]
=============================================================================
