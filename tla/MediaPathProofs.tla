--------------------------- MODULE MediaPathProofs ----------------------------
(***************************************************************************)
(* The properties of MediaPath for every number space, fragmentation and   *)
(* length of the streams: no frame is torn, losses cost the rest of their  *)
(* group of pictures and no more, and what the application gets can be     *)
(* decoded.                                                                *)
(*                                                                         *)
(* First what the depacketizers and the track compute, both codecs         *)
(* together (Gives, TrackStep); then the invariant of the video stream,    *)
(* PathInv, one lemma for each kind of packet that may arrive (...Keeps);  *)
(* then the invariants of the audio stream and of the decoding times, which *)
(* share nothing with it.                                                  *)
(***************************************************************************)
EXTENDS MediaPath, FiniteSetTheorems, WellFoundedInduction, TLAPS

(* A non-empty set of naturals has a least element. *)
LEMMA LeastElement ==
  ASSUME NEW T \in SUBSET Nat, T # {}
  PROVE  \E x \in T : \A y \in T : x <= y
<1> DEFINE F == {0 .. x : x \in T}
<1>1. F \subseteq FiniteSubsetsOf(Nat) /\ F # {}
  <2>1. ASSUME NEW x \in T
        PROVE  0 .. x \in SUBSET Nat /\ IsFiniteSet(0 .. x)
    <3>1. 0 \in Int /\ x \in Int
      OBVIOUS
    <3> QED
      BY <3>1, FS_Interval
  <2> QED
    BY <2>1 DEF FiniteSubsetsOf
<1>2. PICK I \in F : \A J \in F : ~ (<<J, I>> \in StrictSubsetOrdering(Nat))
  BY <1>1, FS_StrictSubsetOrderingWellFounded, WFMin
<1>3. PICK x \in T : I = 0 .. x
  BY <1>2
<1>4. ASSUME NEW y \in T, y < x
      PROVE  FALSE
  <2>1. 0 .. y \in F /\ 0 .. y \subseteq 0 .. x /\ x \in 0 .. x /\ x \notin 0 .. y
    BY <1>4
  <2>2. <<0 .. y, 0 .. x>> \in StrictSubsetOrdering(Nat)
    BY <2>1, <1>1, <1>2, <1>3 DEF StrictSubsetOrdering
  <2> QED
    BY <2>1, <2>2, <1>2, <1>3
<1> QED
  BY <1>4

(* Induction: a set of naturals that has 0 and every successor up to a     *)
(* bound has all numbers up to it.                                         *)
LEMMA SetInduction ==
  ASSUME NEW bound \in Nat, NEW T \in SUBSET Nat, 0 \in T,
         \A n \in T : n < bound => n + 1 \in T
  PROVE  0 .. bound \subseteq T
<1> DEFINE Out == (0 .. bound) \ T
<1>1. SUFFICES ASSUME Out # {} PROVE FALSE
  OBVIOUS
<1> Out \in SUBSET Nat
  OBVIOUS
<1>2. PICK k \in Out : \A y \in Out : k <= y
  BY <1>1, LeastElement
<1>3. k \in 0 .. bound /\ k # 0 /\ k \notin T
  BY <1>2
<1>4. k - 1 \in 0 .. bound /\ k - 1 \notin Out
  BY <1>2, <1>3
<1>5. k - 1 \in T /\ k - 1 < bound
  BY <1>3, <1>4
<1>6. (k - 1) + 1 \in T
  BY <1>5
<1>7. QED
  BY <1>3, <1>6

-----------------------------------------------------------------------------
(* Numbers that wrap.                                                      *)
LEMMA Division ==
  ASSUME NEW x \in Nat, NEW m \in Nat \ {0}
  PROVE  /\ x % m \in 0 .. m - 1 /\ x \div m \in Nat
         /\ x = m * (x \div m) + (x % m)
  BY Z3

(* The number after that of one packet is the number of another one only   *)
(* if it is the next one, or a whole round away.                           *)
LEMMA Follows ==
  ASSUME NEW a \in Nat, NEW k \in Nat, k < SeqMod
  PROVE  (a + k + 1) % SeqMod = ((a % SeqMod) + 1) % SeqMod <=> k = 0
<1>1. SeqMod \in Nat \ {0}
  BY PathAssumption
<1> DEFINE r == a % SeqMod
           q == a \div SeqMod
           r1 == (r + 1) % SeqMod
           q1 == (r + 1) \div SeqMod
           r2 == (a + k + 1) % SeqMod
           q2 == (a + k + 1) \div SeqMod
<1>2. r \in 0 .. SeqMod - 1 /\ q \in Nat /\ a = SeqMod * q + r
  BY <1>1, Division
<1>3. r1 \in 0 .. SeqMod - 1 /\ q1 \in Nat /\ r + 1 = SeqMod * q1 + r1
  <2>1. r + 1 \in Nat
    BY <1>2
  <2>2. QED
    BY <1>1, <2>1, Division
<1>4. r2 \in 0 .. SeqMod - 1 /\ q2 \in Nat /\ a + k + 1 = SeqMod * q2 + r2
  <2>1. a + k + 1 \in Nat
    OBVIOUS
  <2>2. QED
    BY <1>1, <2>1, Division
<1> HIDE DEF r, q, r1, q1, r2, q2
<1>5. SeqMod * q2 + r2 = SeqMod * q + SeqMod * q1 + r1 + k
  BY <1>1, <1>2, <1>3, <1>4
<1>6. SeqMod * (q2 - q - q1) = r1 + k - r2
  BY <1>1, <1>2, <1>3, <1>4, <1>5
<1>7. ASSUME r2 = r1 PROVE k = 0
  <2>1. SeqMod * (q2 - q - q1) = k
    BY <1>1, <1>3, <1>4, <1>6, <1>7
  <2>2. q2 - q - q1 \in Int
    BY <1>2, <1>3, <1>4
  <2>3. QED
    BY <1>1, <2>1, <2>2, Z3
<1>8. ASSUME k = 0 PROVE r2 = r1
  <2>1. SeqMod * (q2 - q - q1) = r1 - r2
    BY <1>1, <1>3, <1>4, <1>6, <1>8
  <2>2. q2 - q - q1 \in Int /\ r1 - r2 \in Int /\ r1 - r2 < SeqMod /\ r2 - r1 < SeqMod
    BY <1>1, <1>2, <1>3, <1>4
  <2>3. QED
    BY <1>1, <1>3, <1>4, <2>1, <2>2, Z3
<1>9. QED
  BY <1>7, <1>8 DEF r1, r2, r

-----------------------------------------------------------------------------
(* The loops over the units of a packet, the frames of a call and the      *)
(* parameter sets: what goes on as the loop does is what the loop gives.   *)
LEMMA UnpackLoop ==
  ASSUME NEW d, NEW pieces, Len(pieces) \in Nat, NEW e,
         e = [i \in 0 .. Len(pieces) |->
                IF i = 0 THEN d ELSE H264!SingleFrame(e[i - 1], pieces[i])]
  PROVE  H264!UnpackStapA(d, pieces) = e[Len(pieces)]
<1> DEFINE IsLoop(u) == u = [i \in 0 .. Len(pieces) |->
                               IF i = 0 THEN d ELSE H264!SingleFrame(u[i - 1], pieces[i])]
           loop == CHOOSE u : IsLoop(u)
           n == Len(pieces)
           T == {i \in 0 .. n : loop[i] = e[i]}
<1>1. H264!UnpackStapA(d, pieces) = loop[n]
  BY DEF H264!UnpackStapA
<1>2. IsLoop(e)
  OBVIOUS
<1>3. IsLoop(loop)
  BY <1>2
<1>4. \A i \in 0 .. n : /\ loop[i] = IF i = 0 THEN d ELSE H264!SingleFrame(loop[i - 1], pieces[i])
                        /\ e[i] = IF i = 0 THEN d ELSE H264!SingleFrame(e[i - 1], pieces[i])
  BY <1>2, <1>3
<1> HIDE DEF loop, IsLoop
<1>5. T \in SUBSET Nat /\ 0 \in T
  <2>1. 0 \in 0 .. n
    OBVIOUS
  <2>2. loop[0] = e[0]
    BY <1>4, <2>1
  <2>3. QED
    BY <2>1, <2>2
<1>6. ASSUME NEW i \in T, i < n PROVE i + 1 \in T
  <2>1. i + 1 \in 0 .. n /\ i + 1 # 0 /\ (i + 1) - 1 = i /\ loop[i] = e[i]
    BY <1>6
  <2>2. QED
    BY <1>4, <2>1
<1>7. n \in T
  <2> HIDE DEF T
  <2>1. 0 .. n \subseteq T
    BY <1>5, <1>6, SetInduction
  <2>2. QED
    BY <2>1
<1>8. QED
  BY <1>1, <1>7

Frames(c, t, frames, e) ==
  [i \in 0 .. Len(frames) |->
     IF i = 0 THEN [t EXCEPT !.shown = << >>]
     ELSE IF c = "h264" THEN H264InputFrame(e[i - 1], frames[i])
          ELSE H265InputFrame(e[i - 1], frames[i])]

(* What goes through the track frame by frame is what inputFrame gives in  *)
(* the end.                                                                *)
LEMMA FramesLoop ==
  ASSUME NEW c, NEW t, NEW frames, Len(frames) \in Nat, NEW e, e = Frames(c, t, frames, e)
  PROVE  InputFrames(c, t, frames) = e[Len(frames)]
<1> DEFINE Step(x, i) == IF c = "h264" THEN H264InputFrame(x, frames[i])
                         ELSE H265InputFrame(x, frames[i])
           IsLoop(u) == u = [i \in 0 .. Len(frames) |->
                               IF i = 0 THEN [t EXCEPT !.shown = << >>] ELSE Step(u[i - 1], i)]
           loop == CHOOSE u : IsLoop(u)
           n == Len(frames)
           T == {i \in 0 .. n : loop[i] = e[i]}
<1>1. InputFrames(c, t, frames) = loop[n]
  BY DEF InputFrames
<1>2. IsLoop(e)
  BY DEF Frames
<1>3. IsLoop(loop)
  BY <1>2
<1> HIDE DEF Step
<1>4. \A i \in 0 .. n : /\ loop[i] = IF i = 0 THEN [t EXCEPT !.shown = << >>] ELSE Step(loop[i - 1], i)
                        /\ e[i] = IF i = 0 THEN [t EXCEPT !.shown = << >>] ELSE Step(e[i - 1], i)
  BY <1>2, <1>3
<1> HIDE DEF loop, IsLoop
<1>5. T \in SUBSET Nat /\ 0 \in T
  <2>1. 0 \in 0 .. n
    OBVIOUS
  <2>2. loop[0] = e[0]
    BY <1>4, <2>1
  <2>3. QED
    BY <2>1, <2>2
<1>6. ASSUME NEW i \in T, i < n PROVE i + 1 \in T
  <2>1. i + 1 \in 0 .. n /\ i + 1 # 0 /\ (i + 1) - 1 = i /\ loop[i] = e[i]
    BY <1>6
  <2>2. QED
    BY <1>4, <2>1
<1>7. n \in T
  <2> HIDE DEF T
  <2>1. 0 .. n \subseteq T
    BY <1>5, <1>6, SetInduction
  <2>2. QED
    BY <2>1
<1>8. QED
  BY <1>1, <1>7

(* The loop of insertConfigFrame over the codec's parameter sets.          *)
LEMMA ConfigLoop ==
  ASSUME NEW t, NEW kinds, Len(kinds) \in Nat, NEW e,
         e = [i \in 0 .. Len(kinds) |->
                IF i = 0 THEN t
                ELSE IF t.sets[kinds[i]] = 0 THEN e[i - 1]
                     ELSE OnConfigFrame(e[i - 1], <<Whole(t.sets[kinds[i]], kinds[i])>>)]
  PROVE  InsertConfigFrame(t, kinds) = e[Len(kinds)]
<1> DEFINE Step(x, i) == IF t.sets[kinds[i]] = 0 THEN x
                         ELSE OnConfigFrame(x, <<Whole(t.sets[kinds[i]], kinds[i])>>)
           IsLoop(u) == u = [i \in 0 .. Len(kinds) |-> IF i = 0 THEN t ELSE Step(u[i - 1], i)]
           loop == CHOOSE u : IsLoop(u)
           n == Len(kinds)
           T == {i \in 0 .. n : loop[i] = e[i]}
<1>1. InsertConfigFrame(t, kinds) = loop[n]
  BY DEF InsertConfigFrame
<1>2. IsLoop(e)
  OBVIOUS
<1>3. IsLoop(loop)
  BY <1>2
<1> HIDE DEF Step
<1>4. \A i \in 0 .. n : /\ loop[i] = IF i = 0 THEN t ELSE Step(loop[i - 1], i)
                        /\ e[i] = IF i = 0 THEN t ELSE Step(e[i - 1], i)
  BY <1>2, <1>3
<1> HIDE DEF loop, IsLoop
<1>5. T \in SUBSET Nat /\ 0 \in T
  <2>1. 0 \in 0 .. n
    OBVIOUS
  <2>2. loop[0] = e[0]
    BY <1>4, <2>1
  <2>3. QED
    BY <2>1, <2>2
<1>6. ASSUME NEW i \in T, i < n PROVE i + 1 \in T
  <2>1. i + 1 \in 0 .. n /\ i + 1 # 0 /\ (i + 1) - 1 = i /\ loop[i] = e[i]
    BY <1>6
  <2>2. QED
    BY <1>4, <2>1
<1>7. n \in T
  <2> HIDE DEF T
  <2>1. 0 .. n \subseteq T
    BY <1>5, <1>6, SetInduction
  <2>2. QED
    BY <2>1
<1>8. QED
  BY <1>1, <1>7

-----------------------------------------------------------------------------
(* What the depacketizer does with a packet, for both codecs.              *)
AllKinds == SliceKinds \union SetKinds \union OtherKinds
Pieces   == [unit : Nat, kind : AllKinds, no : Nat, last : BOOLEAN]
Decoders == [gop : BOOLEAN, fu : BOOLEAN, last : 0 .. SeqMod - 1,
             buffer : Seq(Pieces), frames : Seq(Seq(Pieces))]

(* What outputFrame makes of a decoder d that holds d.frames already.       *)
Output(d, frame) ==
  [gop |-> d.gop /\ ~KeyFrame(frame), fu |-> d.fu, last |-> d.last, buffer |-> << >>,
   frames |-> IF ~d.gop \/ KeyFrame(frame) \/ ConfigFrame(frame)
              THEN Append(d.frames, frame) ELSE d.frames]

Begun == [decoder EXCEPT !.frames = << >>]
Decoded(seq, p) ==
  IF codec = "h264" THEN H264!DecodeRtp(Begun, seq, p) ELSE H265!DecodeRtp(Begun, seq, p)

SeesGap(d, seq) == ~d.gop /\ seq # (d.last + 1) % SeqMod /\ d.last # 0

(* A decoder with its flag, its buffer and its frames changed, field by    *)
(* field.                                                                  *)
LEMMA DecoderExcept ==
  ASSUME NEW d \in Decoders, NEW gop, NEW buffer, NEW frames
  PROVE  [d EXCEPT !.gop = gop, !.buffer = buffer, !.frames = frames] =
           [gop |-> gop, fu |-> d.fu, last |-> d.last, buffer |-> buffer, frames |-> frames]
<1> DEFINE d1 == [d EXCEPT !.gop = gop]
           d2 == [d1 EXCEPT !.buffer = buffer]
<1>1. d1 = [gop |-> gop, fu |-> d.fu, last |-> d.last, buffer |-> d.buffer, frames |-> d.frames]
  BY DEF Decoders
<1> HIDE DEF d1
<1>2. d2 = [gop |-> gop, fu |-> d.fu, last |-> d.last, buffer |-> buffer, frames |-> d.frames]
  BY <1>1
<1> HIDE DEF d2
<1>3. [d2 EXCEPT !.frames = frames] =
        [gop |-> gop, fu |-> d.fu, last |-> d.last, buffer |-> buffer, frames |-> frames]
  BY <1>2
<1>4. QED
  BY <1>3 DEF d2, d1

(* outputFrame ends a group of pictures that is dropped only with a key    *)
(* frame, and lets parameter sets through.                                 *)
LEMMA OutputIs ==
  ASSUME NEW d \in Decoders, NEW frame
  PROVE  H264!OutputFrame(d, frame) = Output(d, frame)
<1> DEFINE gop == d.gop /\ ~KeyFrame(frame)
           out == IF ~gop \/ ConfigFrame(frame) THEN Append(d.frames, frame) ELSE d.frames
<1>1. H264!KeyFrame(frame) = KeyFrame(frame) /\ H264!ConfigFrame(frame) = ConfigFrame(frame)
  BY DEF H264!KeyFrame, H264!ConfigFrame, H264!Kind, H264!SetKinds, KeyFrame, ConfigFrame, Kind, SetKinds
<1>2. H264!OutputFrame(d, frame) = [d EXCEPT !.gop = gop, !.buffer = << >>, !.frames = out]
  BY <1>1 DEF H264!OutputFrame
<1> HIDE DEF gop, out
<1>3. [d EXCEPT !.gop = gop, !.buffer = << >>, !.frames = out] =
        [gop |-> gop, fu |-> d.fu, last |-> d.last, buffer |-> << >>, frames |-> out]
  BY DecoderExcept
<1>4. out = IF ~d.gop \/ KeyFrame(frame) \/ ConfigFrame(frame) THEN Append(d.frames, frame) ELSE d.frames
  BY Zenon DEF out, gop
<1>5. QED
  BY <1>2, <1>3, <1>4 DEF Output, gop

(* A unit in a packet of its own is output as it is.                       *)
LEMMA SingleIs ==
  ASSUME NEW d \in Decoders, NEW piece
  PROVE  H264!SingleFrame(d, piece) = Output(d, <<piece>>)
  BY OutputIs DEF H264!SingleFrame

(* The gap is looked for after the packet was decoded.                     *)
LEMMA InputIs ==
  ASSUME NEW seq, NEW p
  PROVE  InputRtp(seq, p) =
           [Decoded(seq, p) EXCEPT !.gop = Decoded(seq, p).gop \/ SeesGap(Decoded(seq, p), seq),
                                   !.last = seq]
  BY DEF InputRtp, H264!InputRtp, H265!InputRtp, Decoded, Begun, SeesGap, H264!GapSeen,
         H265!GapSeen, H265!H264!GapSeen

(* The two codecs unpack an aggregate alike, but that H.265 sees where it  *)
(* was cut.                                                                *)
LEMMA SameUnpack ==
  ASSUME NEW d, NEW pieces, NEW cut
  PROVE  H265!UnpackAp(d, pieces, cut) =
           [H264!UnpackStapA(d, pieces) EXCEPT !.gop = H264!UnpackStapA(d, pieces).gop \/ cut]
  BY DEF H265!UnpackAp, H264!UnpackStapA, H265!SingleFrame, H265!OutputFrame, H265!H264!OutputFrame,
         H264!SingleFrame, H264!OutputFrame, H265!H264!KeyFrame, H265!H264!ConfigFrame,
         H265!H264!Kind, H265!H264!SetKinds, H264!KeyFrame, H264!ConfigFrame, H264!Kind, H264!SetKinds

(* A packet by its structure.                                              *)
LEMMA DecodedIs ==
  ASSUME codec \in Codecs, decoder \in Decoders, NEW seq, NEW p, Len(p.pieces) \in Nat,
         p.structure \in {"aggregate", "cut"} => H264!UnpackStapA(Begun, p.pieces) \in Decoders
  PROVE  /\ p.structure = "empty" => Decoded(seq, p) = Begun
         /\ p.structure = "single" => Decoded(seq, p) = H264!SingleFrame(Begun, p.pieces[1])
         /\ p.structure = "aggregate" => Decoded(seq, p) = H264!UnpackStapA(Begun, p.pieces)
         /\ p.structure = "cut" =>
              Decoded(seq, p) = [H264!UnpackStapA(Begun, p.pieces) EXCEPT !.gop = TRUE]
         /\ p.structure = "fragment" => Decoded(seq, p) = H264!MergeFu(Begun, seq, p.pieces[1])
         /\ p.structure = "unsupported" => Decoded(seq, p) = [Begun EXCEPT !.gop = TRUE]
<1> DEFINE unpacked == H264!UnpackStapA(Begun, p.pieces)
<1>1. CASE codec = "h264"
  BY <1>1 DEF Decoded, H264!DecodeRtp
<1>2. CASE codec = "h265"
  <2>1. Decoded(seq, p) = H265!DecodeRtp(Begun, seq, p)
    BY <1>2 DEF Decoded
  <2>2. \A x : H265!SingleFrame(Begun, x) = H264!SingleFrame(Begun, x)
    BY DEF H265!SingleFrame, H265!OutputFrame, H265!H264!OutputFrame, H264!SingleFrame,
           H264!OutputFrame, H265!H264!KeyFrame, H265!H264!ConfigFrame, H265!H264!Kind,
           H265!H264!SetKinds, H264!KeyFrame, H264!ConfigFrame, H264!Kind, H264!SetKinds
  <2>3. \A x : H265!MergeFu(Begun, seq, x) = H264!MergeFu(Begun, seq, x)
    BY DEF H265!MergeFu, H265!H264!MergeFu, H265!H264!OutputFrame, H264!MergeFu,
           H264!OutputFrame, H265!H264!KeyFrame, H265!H264!ConfigFrame, H265!H264!Kind,
           H265!H264!SetKinds, H264!KeyFrame, H264!ConfigFrame, H264!Kind, H264!SetKinds
  <2>4. \A cut : H265!UnpackAp(Begun, p.pieces, cut) = [unpacked EXCEPT !.gop = unpacked.gop \/ cut]
    BY SameUnpack
  <2> HIDE DEF unpacked
  <2>5. p.structure = "aggregate" => H265!UnpackAp(Begun, p.pieces, FALSE) = unpacked
    <3> SUFFICES ASSUME p.structure = "aggregate" PROVE H265!UnpackAp(Begun, p.pieces, FALSE) = unpacked
      OBVIOUS
    <3>1. unpacked.gop \in BOOLEAN /\ [unpacked EXCEPT !.gop = unpacked.gop] = unpacked
      BY DEF Decoders, unpacked
    <3>2. (unpacked.gop \/ FALSE) = unpacked.gop
      BY <3>1
    <3>3. QED
      BY <2>4, <3>1, <3>2
  <2>6. H265!UnpackAp(Begun, p.pieces, TRUE) = [unpacked EXCEPT !.gop = TRUE]
    <3>1. (unpacked.gop \/ TRUE) = TRUE
      OBVIOUS
    <3>2. QED
      BY <2>4, <3>1
  <2>7. QED
    BY <2>1, <2>2, <2>3, <2>5, <2>6 DEF H265!DecodeRtp, unpacked
<1>3. QED
  BY <1>1, <1>2 DEF Codecs

(* Parameter sets and key frames come out one by one, also while a group   *)
(* of pictures is dropped.                                                 *)
UnpackedTo(d, pieces, i) ==
  [gop |-> d.gop /\ ~\E j \in 1 .. i : pieces[j].kind = "idr", fu |-> d.fu, last |-> d.last,
   buffer |-> IF i = 0 THEN d.buffer ELSE << >>, frames |-> [j \in 1 .. i |-> <<pieces[j]>>]]

(* Unpacking parameter sets, with or without a key frame, outputs each as a*)
(* frame.                                                                  *)
LEMMA UnpackIs ==
  ASSUME NEW d \in Decoders, d.frames = << >>, NEW pieces \in Seq(Pieces),
         \A i \in 1 .. Len(pieces) : pieces[i].kind \in SetKinds \union {"idr"}
  PROVE  /\ H264!UnpackStapA(d, pieces) = UnpackedTo(d, pieces, Len(pieces))
         /\ UnpackedTo(d, pieces, Len(pieces)) \in Decoders
<1> DEFINE n == Len(pieces)
           e == [i \in 0 .. n |-> UnpackedTo(d, pieces, i)]
<1>1. n \in Nat /\ \A i \in 1 .. n : pieces[i] \in Pieces
  OBVIOUS
<1>2. ASSUME NEW i \in 0 .. n PROVE UnpackedTo(d, pieces, i) \in Decoders
  <2>1. [j \in 1 .. i |-> <<pieces[j]>>] \in Seq(Seq(Pieces))
    <3>1. i \in Nat /\ \A j \in 1 .. i : <<pieces[j]>> \in Seq(Pieces)
      BY <1>1
    <3>2. QED
      BY <3>1
  <2>2. (IF i = 0 THEN d.buffer ELSE << >>) \in Seq(Pieces)
    BY DEF Decoders
  <2>3. (d.gop /\ ~\E j \in 1 .. i : pieces[j].kind = "idr") \in BOOLEAN
    OBVIOUS
  <2>4. d.fu \in BOOLEAN /\ d.last \in 0 .. SeqMod - 1
    BY DEF Decoders
  <2>5. QED
    BY <2>1, <2>2, <2>3, <2>4 DEF UnpackedTo, Decoders
<1>3. UnpackedTo(d, pieces, 0) = d
  <2>1. (d.gop /\ ~\E j \in 1 .. 0 : pieces[j].kind = "idr") = d.gop
    <3>1. ~\E j \in 1 .. 0 : pieces[j].kind = "idr"
      OBVIOUS
    <3>2. d.gop \in BOOLEAN
      BY DEF Decoders
    <3>3. QED
      BY <3>1, <3>2
  <2>2. [j \in 1 .. 0 |-> <<pieces[j]>>] = << >>
    OBVIOUS
  <2>3. d = [gop |-> d.gop, fu |-> d.fu, last |-> d.last, buffer |-> d.buffer, frames |-> << >>]
    BY DEF Decoders
  <2>4. QED
    BY <2>1, <2>2, <2>3 DEF UnpackedTo
<1>4. ASSUME NEW i \in 1 .. n
      PROVE  UnpackedTo(d, pieces, i) = H264!SingleFrame(UnpackedTo(d, pieces, i - 1), pieces[i])
  <2> DEFINE was == UnpackedTo(d, pieces, i - 1)
  <2>1. i - 1 \in 0 .. n /\ i # 0 /\ was \in Decoders
    BY <1>1, <1>2
  <2>2. H264!SingleFrame(was, pieces[i]) = Output(was, <<pieces[i]>>)
    BY <2>1, SingleIs
  <2>3. KeyFrame(<<pieces[i]>>) <=> pieces[i].kind = "idr"
    BY DEF KeyFrame, Kind
  <2>4. ConfigFrame(<<pieces[i]>>) <=> pieces[i].kind \in SetKinds
    BY DEF ConfigFrame, Kind
  <2>5. KeyFrame(<<pieces[i]>>) \/ ConfigFrame(<<pieces[i]>>)
    BY <2>3, <2>4
  <2>6. (was.gop /\ ~KeyFrame(<<pieces[i]>>)) = (d.gop /\ ~\E j \in 1 .. i : pieces[j].kind = "idr")
    <3>1. was.gop <=> d.gop /\ ~\E j \in 1 .. i - 1 : pieces[j].kind = "idr"
      BY DEF UnpackedTo
    <3>2. (\E j \in 1 .. i : pieces[j].kind = "idr") <=>
            (\E j \in 1 .. i - 1 : pieces[j].kind = "idr") \/ pieces[i].kind = "idr"
      BY <2>1
    <3>3. QED
      BY <2>3, <3>1, <3>2
  <2>7. was.fu = d.fu /\ was.last = d.last /\ was.frames = [j \in 1 .. i - 1 |-> <<pieces[j]>>]
    BY DEF UnpackedTo
  <2>8. Append(was.frames, <<pieces[i]>>) = [j \in 1 .. i |-> <<pieces[j]>>]
    <3>1. i - 1 \in Nat
      BY <2>1
    <3>2. [j \in 1 .. i - 1 |-> <<pieces[j]>>] \in Seq(Seq(Pieces))
          /\ Len([j \in 1 .. i - 1 |-> <<pieces[j]>>]) = i - 1
      BY <1>1, <3>1
    <3>3. QED
      BY <2>7, <3>1, <3>2
  <2> HIDE DEF was
  <2>9. Output(was, <<pieces[i]>>) =
          [gop |-> was.gop /\ ~KeyFrame(<<pieces[i]>>), fu |-> was.fu, last |-> was.last,
           buffer |-> << >>, frames |-> Append(was.frames, <<pieces[i]>>)]
    BY <2>5 DEF Output
  <2>10. QED
    BY <2>1, <2>2, <2>6, <2>7, <2>8, <2>9 DEF UnpackedTo, was
<1>5. e = [i \in 0 .. n |-> IF i = 0 THEN d ELSE H264!SingleFrame(e[i - 1], pieces[i])]
  <2>1. ASSUME NEW i \in 0 .. n
        PROVE  UnpackedTo(d, pieces, i) = IF i = 0 THEN d ELSE H264!SingleFrame(e[i - 1], pieces[i])
    <3>1. CASE i = 0
      BY <1>3, <3>1
    <3>2. CASE i # 0
      <4>1. i \in 1 .. n /\ i - 1 \in 0 .. n
        BY <1>1, <3>2
      <4>2. e[i - 1] = UnpackedTo(d, pieces, i - 1)
        BY <4>1
      <4> HIDE DEF e
      <4>3. QED
        BY <1>4, <3>2, <4>1, <4>2
    <3>3. QED
      BY <3>1, <3>2
  <2>2. QED
    BY <2>1, Zenon
<1>6. e[n] = UnpackedTo(d, pieces, n)
  BY <1>1
<1> HIDE DEF e
<1>7. H264!UnpackStapA(d, pieces) = e[n]
  BY <1>1, <1>5, UnpackLoop
<1>8. QED
  BY <1>1, <1>2, <1>6, <1>7

-----------------------------------------------------------------------------
(* What the track and the callback do with a frame, for both codecs.       *)
Tracks == [sets : [SetKinds -> Nat], told : BOOLEAN, extra : Seq(Pieces),
           shown : Seq(Seq(Pieces))]
Ready(t) == IF codec = "h264" THEN H264Ready(t) ELSE H265Ready(t)
InputFrame(t, frame) ==
  IF codec = "h264" THEN H264InputFrame(t, frame) ELSE H265InputFrame(t, frame)
Extra(t) == [i \in DOMAIN Sets(codec) |-> Whole(t.sets[Sets(codec)[i]], Sets(codec)[i])]

(* A unit that is not cut is a piece that is first and last.               *)
LEMMA WholeIsPiece ==
  ASSUME NEW u \in Nat, NEW k \in AllKinds
  PROVE  /\ Whole(u, k) \in Pieces
         /\ Whole(u, k).unit = u /\ Whole(u, k).kind = k
         /\ Whole(u, k).no = 1 /\ Whole(u, k).last = TRUE
  BY DEF Whole, Piece, Pieces

(* The parameter sets of the two codecs, one by one.                       *)
LEMMA SetsAre ==
  /\ Len(H264Sets) = 2 /\ H264Sets[1] = "sps" /\ H264Sets[2] = "pps" /\ DOMAIN H264Sets = 1 .. 2
  /\ Len(H265Sets) = 3 /\ H265Sets[1] = "vps" /\ H265Sets[2] = "sps" /\ H265Sets[3] = "pps"
  /\ DOMAIN H265Sets = 1 .. 3
  BY DEF H264Sets, H265Sets

(* insertConfigFrame with all sets there tells each of them, or none when  *)
(* the parameters were told before.                                        *)
LEMMA InsertIs ==
  ASSUME codec \in Codecs, NEW t \in Tracks, Ready(t), ~t.told => t.extra = << >>
  PROVE  InsertConfigFrame(t, Sets(codec)) = IF t.told THEN t ELSE [t EXCEPT !.extra = Extra(t)]
<1> DEFINE kinds == Sets(codec)
           n == Len(kinds)
           part(i) == [j \in 1 .. i |-> Whole(t.sets[kinds[j]], kinds[j])]
           e == [i \in 0 .. n |-> IF t.told THEN t ELSE [t EXCEPT !.extra = part(i)]]
<1>1. /\ n \in Nat /\ DOMAIN kinds = 1 .. n
      /\ \A i \in 1 .. n : kinds[i] \in SetKinds /\ t.sets[kinds[i]] # 0
  <2>1. CASE codec = "h264"
    <3>1. kinds = H264Sets /\ t.sets["sps"] # 0 /\ t.sets["pps"] # 0
      BY <2>1 DEF Sets, Ready, H264Ready
    <3>2. \A i \in 1 .. 2 : H264Sets[i] = "sps" \/ H264Sets[i] = "pps"
      BY SetsAre
    <3> HIDE DEF kinds
    <3>3. QED
      BY <3>1, <3>2, SetsAre DEF SetKinds
  <2>2. CASE codec = "h265"
    <3>1. kinds = H265Sets /\ t.sets["sps"] # 0 /\ t.sets["pps"] # 0 /\ t.sets["vps"] # 0
      BY <2>2 DEF Sets, Ready, H265Ready
    <3>2. \A i \in 1 .. 3 : H265Sets[i] = "vps" \/ H265Sets[i] = "sps" \/ H265Sets[i] = "pps"
      BY SetsAre
    <3> HIDE DEF kinds
    <3>3. QED
      BY <3>1, <3>2, SetsAre DEF SetKinds
  <2>3. QED
    BY <2>1, <2>2 DEF Codecs
<1> HIDE DEF kinds, n
<1>2. ASSUME NEW i \in 1 .. n, ~t.told
      PROVE  OnConfigFrame([t EXCEPT !.extra = part(i - 1)], <<Whole(t.sets[kinds[i]], kinds[i])>>)
               = [t EXCEPT !.extra = part(i)]
  <2> DEFINE was == [t EXCEPT !.extra = part(i - 1)]
  <2>1. ASSUME NEW j \in 1 .. i PROVE Whole(t.sets[kinds[j]], kinds[j]) \in Pieces
    <3>1. j \in 1 .. n
      BY <1>1
    <3>2. kinds[j] \in SetKinds /\ t.sets[kinds[j]] \in Nat /\ kinds[j] \in AllKinds
      BY <1>1, <3>1 DEF Tracks, AllKinds
    <3>3. QED
      BY <3>2, WholeIsPiece
  <2>2. i - 1 \in Nat /\ i \in Nat
    BY <1>1
  <2>3. part(i - 1) \in Seq(Pieces) /\ Len(part(i - 1)) = i - 1
    BY <2>1, <2>2
  <2>4. Append(part(i - 1), Whole(t.sets[kinds[i]], kinds[i])) = part(i)
    BY <2>1, <2>2, <2>3
  <2>5. ~was.told /\ was.extra = part(i - 1)
    BY <1>2 DEF Tracks
  <2> HIDE DEF part
  <2>6. [was EXCEPT !.extra = part(i)] = [t EXCEPT !.extra = part(i)]
    BY DEF Tracks
  <2> HIDE DEF was
  <2>7. OnConfigFrame(was, <<Whole(t.sets[kinds[i]], kinds[i])>>) =
          [was EXCEPT !.extra = Append(was.extra, Whole(t.sets[kinds[i]], kinds[i]))]
    BY <2>5 DEF OnConfigFrame
  <2>8. QED
    BY <2>4, <2>5, <2>6, <2>7 DEF was
<1>3. ASSUME NEW i \in 0 .. n
      PROVE  e[i] = IF i = 0 THEN t
                    ELSE IF t.sets[kinds[i]] = 0 THEN e[i - 1]
                         ELSE OnConfigFrame(e[i - 1], <<Whole(t.sets[kinds[i]], kinds[i])>>)
  <2>1. CASE i = 0
    <3>1. part(0) = << >>
      OBVIOUS
    <3>2. ~t.told => [t EXCEPT !.extra = << >>] = t
      BY DEF Tracks
    <3>3. QED
      BY <2>1, <3>1, <3>2
  <2>2. CASE i # 0
    <3>1. i \in 1 .. n /\ i - 1 \in 0 .. n
      BY <1>1, <2>2
    <3>2. t.sets[kinds[i]] # 0
      BY <1>1, <3>1
    <3>3. e[i - 1] = (IF t.told THEN t ELSE [t EXCEPT !.extra = part(i - 1)])
          /\ e[i] = (IF t.told THEN t ELSE [t EXCEPT !.extra = part(i)])
      BY <3>1
    <3> HIDE DEF e, part
    <3>4. CASE t.told
      BY <2>2, <3>2, <3>3, <3>4 DEF OnConfigFrame
    <3>5. CASE ~t.told
      <4>1. OnConfigFrame([t EXCEPT !.extra = part(i - 1)], <<Whole(t.sets[kinds[i]], kinds[i])>>)
               = [t EXCEPT !.extra = part(i)]
        BY <1>2, <3>1, <3>5 DEF part
      <4>2. QED
        BY <2>2, <3>2, <3>3, <3>5, <4>1
    <3>6. QED
      BY <3>4, <3>5
  <2>3. QED
    BY <2>1, <2>2
<1>4. e = [i \in 0 .. n |-> IF i = 0 THEN t
                    ELSE IF t.sets[kinds[i]] = 0 THEN e[i - 1]
                         ELSE OnConfigFrame(e[i - 1], <<Whole(t.sets[kinds[i]], kinds[i])>>)]
  BY <1>3, Zenon
<1>5. e[n] = IF t.told THEN t ELSE [t EXCEPT !.extra = part(n)]
  BY <1>1
<1>6. part(n) = Extra(t)
  BY <1>1 DEF Extra, kinds
<1> HIDE DEF e, part
<1>7. InsertConfigFrame(t, kinds) = e[n]
  BY <1>1, <1>4, ConfigLoop DEF n
<1>8. QED
  BY <1>5, <1>6, <1>7 DEF kinds

(* A frame behind the depacketizer, by what it is.                         *)
Shows(t, frame) == [t EXCEPT !.shown = Append(t.shown, frame)]
ShowsKey(t, frame) ==
  [t EXCEPT !.told = TRUE, !.shown = Append(t.shown, frame),
            !.extra = IF t.told THEN t.extra ELSE Extra(t)]

(* A track with two fields changed, field by field.                        *)
LEMMA TrackExcept2 ==
  ASSUME NEW t \in Tracks, NEW told, NEW shown
  PROVE  [t EXCEPT !.told = told, !.shown = shown] =
           [sets |-> t.sets, told |-> told, extra |-> t.extra, shown |-> shown]
<1> DEFINE t1 == [t EXCEPT !.told = told]
<1>1. t1 = [sets |-> t.sets, told |-> told, extra |-> t.extra, shown |-> t.shown]
  BY SMTT(30) DEF Tracks
<1> HIDE DEF t1
<1>2. [t1 EXCEPT !.shown = shown] =
        [sets |-> t.sets, told |-> told, extra |-> t.extra, shown |-> shown]
  BY <1>1
<1>3. QED
  BY <1>2 DEF t1

(* A track with three fields changed, field by field.                      *)
LEMMA TrackExcept3 ==
  ASSUME NEW t \in Tracks, NEW told, NEW shown, NEW extra
  PROVE  [t EXCEPT !.told = told, !.shown = shown, !.extra = extra] =
           [sets |-> t.sets, told |-> told, extra |-> extra, shown |-> shown]
<1> DEFINE t2 == [t EXCEPT !.told = told, !.shown = shown]
<1>1. t2 = [sets |-> t.sets, told |-> told, extra |-> t.extra, shown |-> shown]
  BY TrackExcept2
<1> HIDE DEF t2
<1>2. [t2 EXCEPT !.extra = extra] =
        [sets |-> t.sets, told |-> told, extra |-> extra, shown |-> shown]
  BY <1>1
<1>3. QED
  BY <1>2 DEF t2

(* What the parameters are told with is a sequence of whole units.         *)
LEMMA ExtraType ==
  ASSUME codec \in Codecs, NEW t \in Tracks
  PROVE  Extra(t) \in Seq(Pieces)
<1> DEFINE kinds == Sets(codec)
           n == Len(kinds)
<1>1. n \in Nat /\ DOMAIN kinds = 1 .. n /\ \A i \in 1 .. n : kinds[i] \in SetKinds
  <2>1. kinds = H264Sets \/ kinds = H265Sets
    BY DEF Sets, Codecs
  <2>2. \A i \in 1 .. 2 : H264Sets[i] = "sps" \/ H264Sets[i] = "pps"
    BY SetsAre
  <2>3. \A i \in 1 .. 3 : H265Sets[i] = "vps" \/ H265Sets[i] = "sps" \/ H265Sets[i] = "pps"
    BY SetsAre
  <2> HIDE DEF kinds
  <2>4. QED
    BY <2>1, <2>2, <2>3, SetsAre DEF SetKinds
<1> HIDE DEF kinds, n
<1>2. ASSUME NEW i \in 1 .. n PROVE Whole(t.sets[kinds[i]], kinds[i]) \in Pieces
  <2>1. kinds[i] \in SetKinds /\ t.sets[kinds[i]] \in Nat /\ kinds[i] \in AllKinds
    BY <1>1 DEF Tracks, AllKinds
  <2>2. QED
    BY <2>1, WholeIsPiece
<1>3. [i \in 1 .. n |-> Whole(t.sets[kinds[i]], kinds[i])] \in Seq(Pieces)
  BY <1>1, <1>2
<1>4. QED
  BY <1>1, <1>3 DEF Extra, kinds

(* The track keeps a parameter set, whatever else it has, and shows        *)
(* nothing.                                                                *)
LEMMA ConfigIs ==
  ASSUME NEW t \in Tracks, NEW frame, ConfigFrame(frame)
  PROVE  InputFrame(t, frame) = [t EXCEPT !.sets[Kind(frame)] = frame[1].unit]
<1>1. Kind(frame) \notin SliceKinds /\ Kind(frame) \in SetKinds
  BY DEF ConfigFrame, SliceKinds, SetKinds
<1>2. ~H264Waits(t, frame) /\ ~H265Waits(t, frame)
  BY <1>1 DEF H264Waits, H265Waits
<1>3. \A kinds : InputFrame1(t, frame, kinds) = [t EXCEPT !.sets[Kind(frame)] = frame[1].unit]
  <2>1. ~KeyFrame(frame)
    BY <1>1 DEF KeyFrame, SetKinds
  <2>2. QED
    BY <2>1 DEF InputFrame1
<1>4. QED
  BY <1>2, <1>3 DEF InputFrame, H264InputFrame, H265InputFrame

(* The track waits for its parameter sets; once it has them a key frame is *)
(* shown after them.                                                       *)
LEMMA KeyIs ==
  ASSUME codec \in Codecs, NEW t \in Tracks, NEW frame, KeyFrame(frame), ~t.told => t.extra = << >>
  PROVE  InputFrame(t, frame) = IF Ready(t) THEN ShowsKey(t, frame) ELSE t
<1>1. Kind(frame) = "idr" /\ Kind(frame) \in SliceKinds /\ ~ConfigFrame(frame)
  BY DEF KeyFrame, ConfigFrame, SliceKinds, SetKinds
<1>2. InputFrame(t, frame) = IF Ready(t) THEN InputFrame1(t, frame, Sets(codec)) ELSE t
  <2>1. CASE codec = "h264"
    BY <1>1, <2>1 DEF InputFrame, H264InputFrame, H264Waits, Ready, Sets
  <2>2. CASE codec = "h265"
    BY <1>1, <2>2 DEF InputFrame, H265InputFrame, H265Waits, Ready, Sets
  <2>3. QED
    BY <2>1, <2>2 DEF Codecs
<1>3. ASSUME Ready(t) PROVE InputFrame1(t, frame, Sets(codec)) = ShowsKey(t, frame)
  <2> DEFINE x == InsertConfigFrame(t, Sets(codec))
  <2>1. InputFrame1(t, frame, Sets(codec)) = OnFrame(x, frame)
    BY <1>1 DEF InputFrame1
  <2>2. x = IF t.told THEN t ELSE [t EXCEPT !.extra = Extra(t)]
    BY <1>3, InsertIs
  <2> HIDE DEF x
  <2>3. x.told = t.told /\ x.shown = t.shown
    BY <2>2 DEF Tracks
  <2>4. OnFrame(x, frame) = [x EXCEPT !.told = TRUE, !.shown = Append(t.shown, frame)]
    BY <2>3 DEF OnFrame
  <2>5. [x EXCEPT !.told = TRUE, !.shown = Append(t.shown, frame)] = ShowsKey(t, frame)
    <3> DEFINE shown == Append(t.shown, frame)
               extra == IF t.told THEN t.extra ELSE Extra(t)
               told == TRUE
    <3>1. x \in Tracks /\ x.sets = t.sets /\ x.extra = extra
      <4>1. x = t \/ (x = [t EXCEPT !.extra = Extra(t)] /\ Extra(t) \in Seq(Pieces))
        BY <1>3, <2>2, ExtraType
      <4>2. QED
        BY <2>2, <4>1 DEF Tracks
    <3> HIDE DEF extra, shown, told
    <3>2. [x EXCEPT !.told = told, !.shown = shown] =
            [sets |-> t.sets, told |-> told, extra |-> extra, shown |-> shown]
      <4>1. x \in Tracks
        BY <3>1
      <4>2. [x EXCEPT !.told = told, !.shown = shown] =
              [sets |-> x.sets, told |-> told, extra |-> x.extra, shown |-> shown]
        BY <4>1, TrackExcept2
      <4>3. QED
        BY <3>1, <4>2
    <3>3. [t EXCEPT !.told = told, !.shown = shown, !.extra = extra] =
            [sets |-> t.sets, told |-> told, extra |-> extra, shown |-> shown]
      BY TrackExcept3
    <3>4. QED
      BY <3>2, <3>3, Zenon DEF shown, extra, told, ShowsKey
  <2>6. QED
    BY <2>1, <2>4, <2>5
<1>4. QED
  BY <1>2, <1>3

(* Any other frame is shown, or waits for the parameter sets, as a slice   *)
(* always does.                                                            *)
LEMMA OtherIs ==
  ASSUME codec \in Codecs, NEW t \in Tracks, NEW frame, ~KeyFrame(frame), ~ConfigFrame(frame)
  PROVE  /\ InputFrame(t, frame) \in {t, Shows(t, frame)}
         /\ Kind(frame) \in SliceKinds /\ ~Ready(t) => InputFrame(t, frame) = t
<1>1. OnFrame(t, frame) = Shows(t, frame)
  <2>1. (t.told \/ KeyFrame(frame)) = t.told
    BY DEF Tracks
  <2>2. OnFrame(t, frame) = [t EXCEPT !.told = t.told \/ KeyFrame(frame), !.shown = Append(t.shown, frame)]
    BY DEF OnFrame
  <2>3. [t EXCEPT !.told = t.told] = t
    BY DEF Tracks
  <2>4. QED
    BY <2>1, <2>2, <2>3 DEF Shows
<1>2. \A kinds : InputFrame1(t, frame, kinds) = Shows(t, frame)
  BY <1>1 DEF InputFrame1
<1>3. Kind(frame) \in SliceKinds => Kind(frame) # "sei"
  BY DEF SliceKinds
<1>4. CASE codec = "h264"
  BY <1>2, <1>4 DEF InputFrame, H264InputFrame, H264Waits, Ready
<1>5. CASE codec = "h265"
  BY <1>2, <1>3, <1>5 DEF InputFrame, H265InputFrame, H265Waits, Ready
<1>6. QED
  BY <1>4, <1>5 DEF Codecs

Silent(t) == [t EXCEPT !.shown = << >>]
FrameByFrame(t, frames, e) ==
  /\ e[0] = Silent(t) /\ InputFrames(codec, t, frames) = e[Len(frames)]
  /\ \A i \in 1 .. Len(frames) : e[i] = InputFrame(e[i - 1], frames[i])

(* A call brings no frame, or at most four, which is what a packet with    *)
(* the parameter sets and the key frame after them unpacks to.             *)
LEMMA FramesAre ==
  ASSUME NEW t, NEW frames, Len(frames) \in 0 .. 4
  PROVE  \E e : FrameByFrame(t, frames, e)
<1> DEFINE n == Len(frames)
           e0 == [t EXCEPT !.shown = << >>]
           e1 == InputFrame(e0, frames[1])
           e2 == InputFrame(e1, frames[2])
           e3 == InputFrame(e2, frames[3])
           e4 == InputFrame(e3, frames[4])
           E == [i \in 0 .. n |-> IF i = 0 THEN e0 ELSE IF i = 1 THEN e1 ELSE IF i = 2 THEN e2
                                  ELSE IF i = 3 THEN e3 ELSE e4]
<1>1. ASSUME NEW i \in 0 .. n
      PROVE  E[i] = IF i = 0 THEN [t EXCEPT !.shown = << >>] ELSE InputFrame(E[i - 1], frames[i])
  <2>1. i \in 0 .. 4 /\ i <= n
    <3>1. n \in 0 .. 4
      OBVIOUS
    <3> HIDE DEF n
    <3>2. QED
      BY <3>1
  <2>2. i # 0 => i - 1 \in 0 .. n
    BY <2>1
  <2>3. i = 0 \/ i = 1 \/ i = 2 \/ i = 3 \/ i = 4
    BY <2>1
  <2>4. /\ e0 = [t EXCEPT !.shown = << >>] /\ e1 = InputFrame(e0, frames[1])
        /\ e2 = InputFrame(e1, frames[2]) /\ e3 = InputFrame(e2, frames[3])
        /\ e4 = InputFrame(e3, frames[4])
    OBVIOUS
  <2> HIDE DEF e0, e1, e2, e3, e4
  <2>5. CASE i = 0
    BY <2>4, <2>5
  <2>6. CASE i = 1
    BY <2>1, <2>2, <2>4, <2>6
  <2>7. CASE i = 2
    BY <2>1, <2>2, <2>4, <2>7
  <2>8. CASE i = 3
    BY <2>1, <2>2, <2>4, <2>8
  <2>9. CASE i = 4
    BY <2>1, <2>2, <2>4, <2>9
  <2>10. QED
    BY <2>3, <2>5, <2>6, <2>7, <2>8, <2>9
<1>2. E = [i \in 0 .. n |-> IF i = 0 THEN [t EXCEPT !.shown = << >>] ELSE InputFrame(E[i - 1], frames[i])]
  BY <1>1, Zenon
<1>3. n \in Nat
  OBVIOUS
<1> HIDE DEF E
<1>4. InputFrames(codec, t, frames) = E[n]
  <2>1. E = Frames(codec, t, frames, E)
    BY <1>2, Zenon DEF InputFrame, Frames
  <2>2. Len(frames) \in Nat
    BY <1>3
  <2>3. InputFrames(codec, t, frames) = E[Len(frames)]
    BY <2>1, <2>2, FramesLoop
  <2>4. QED
    BY <2>3
<1>5. E[0] = [t EXCEPT !.shown = << >>] /\ \A i \in 1 .. n : E[i] = InputFrame(E[i - 1], frames[i])
  <2> HIDE DEF n
  <2>1. 0 \in 0 .. n /\ \A i \in 1 .. n : i \in 0 .. n /\ i # 0
    BY <1>3
  <2>2. QED
    BY <1>1, <2>1
<1>6. FrameByFrame(t, frames, E)
  BY <1>4, <1>5 DEF n, FrameByFrame, Silent
<1>7. QED
  BY <1>6
-----------------------------------------------------------------------------
(* What the sender may send, case by case.                                 *)
IsSingle(choice, k) ==
  /\ cutting = NoUnit /\ k \in MayStart \union SetsOf(codec)
  /\ choice.packet.structure = "single" /\ choice.packet.pieces = <<Whole(units + 1, k)>>
  /\ choice.units = units + 1 /\ choice.cutting = NoUnit

IsAggregate(choice, more) ==
  /\ cutting = NoUnit
  /\ choice.packet.structure = "aggregate" /\ choice.packet.pieces = Units(Sets(codec) \o more)
  /\ choice.units = units + Len(Sets(codec) \o more) /\ choice.cutting = NoUnit

IsFirst(choice, k) ==
  /\ cutting = NoUnit /\ k \in MayStart
  /\ choice.packet.structure = "fragment" /\ choice.packet.pieces = <<Piece(units + 1, k, 1, FALSE)>>
  /\ choice.units = units + 1 /\ choice.cutting = Piece(units + 1, k, 1, FALSE)

IsNext(choice, last) ==
  LET piece == Piece(cutting.unit, cutting.kind, cutting.no + 1, last)
  IN  /\ cutting # NoUnit /\ last \in BOOLEAN /\ (last \/ cutting.no + 1 < MaxPieces)
      /\ choice.packet.structure = "fragment" /\ choice.packet.pieces = <<piece>>
      /\ choice.units = cutting.unit /\ choice.cutting = IF last THEN NoUnit ELSE piece

IsCut(choice) ==
  /\ cutting = NoUnit
  /\ choice.packet.structure = "cut" /\ choice.packet.pieces = <<Whole(units + 1, Sets(codec)[1])>>
  /\ choice.units = units + 1 /\ choice.cutting = NoUnit

IsUseless(choice) ==
  /\ cutting = NoUnit
  /\ choice.packet.structure \in {"empty", "unsupported"} /\ choice.packet.pieces = << >>
  /\ choice.units = units /\ choice.cutting = NoUnit

(* One unit takes the next number.                                         *)
LEMMA UnitsOfOne ==
  ASSUME NEW k
  PROVE  Units(<<k>>) = <<Whole(units + 1, k)>> /\ Len(<<k>>) = 1
  BY DEF Units

(* What the sender sends is a unit of its own, parameter sets in one       *)
(* packet, a first or a next fragment, a packet that is cut short, or one  *)
(* without use.                                                            *)
LEMMA ChoiceIs ==
  ASSUME units \in Nat, NEW choice \in Choices
  PROVE  \/ \E k : IsSingle(choice, k)
         \/ \E more \in {<< >>, <<"idr">>} : IsAggregate(choice, more)
         \/ \E k : IsFirst(choice, k)
         \/ \E last : IsNext(choice, last)
         \/ IsCut(choice)
         \/ IsUseless(choice)
<1>1. ASSUME cutting # NoUnit PROVE \E last : IsNext(choice, last)
  <2>1. choice \in NextPieces
    BY <1>1 DEF Choices
  <2>2. PICK last \in BOOLEAN : /\ last \/ cutting.no + 1 < MaxPieces
                                /\ choice = Fragment(Piece(cutting.unit, cutting.kind, cutting.no + 1, last))
    BY <2>1 DEF NextPieces
  <2>3. IsNext(choice, last)
    BY <1>1, <2>2 DEF IsNext, Fragment, Packet, Piece
  <2>4. QED
    BY <2>3
<1>2. CASE cutting = NoUnit
  <2>1. ASSUME NEW k \in MayStart \union SetsOf(codec), choice = Fresh("single", <<k>>)
        PROVE  IsSingle(choice, k)
    BY <1>2, <2>1, UnitsOfOne DEF IsSingle, Fresh, Packet
  <2>2. ASSUME NEW more \in {<< >>, <<"idr">>}, choice = Fresh("aggregate", Sets(codec) \o more)
        PROVE  IsAggregate(choice, more)
    BY <1>2, <2>2 DEF IsAggregate, Fresh, Packet
  <2>3. ASSUME NEW k \in MayStart, choice = Fragment(Piece(units + 1, k, 1, FALSE))
        PROVE  IsFirst(choice, k)
    BY <1>2, <2>3 DEF IsFirst, Fragment, Packet, Piece
  <2>4. ASSUME NEW s \in Odd, choice = Fresh(s, IF s = "cut" THEN <<Sets(codec)[1]>> ELSE << >>)
        PROVE  IsCut(choice) \/ IsUseless(choice)
    <3>1. CASE s = "cut"
      <4>1. choice = Fresh("cut", <<Sets(codec)[1]>>)
        BY <2>4, <3>1
      <4>2. QED
        BY <1>2, <4>1, UnitsOfOne DEF IsCut, Fresh, Packet
    <3>2. CASE s # "cut"
      <4>1. choice = Fresh(s, << >>)
        BY <2>4, <3>2
      <4>2. s \in {"empty", "unsupported"}
        BY <3>2, PathAssumption
      <4>3. Units(<< >>) = << >>
        BY DEF Units
      <4>4. QED
        BY <1>2, <4>1, <4>2, <4>3 DEF IsUseless, Fresh, Packet
    <3>3. QED
      BY <3>1, <3>2
  <2>5. choice \in      {Fresh("single", <<k>>) : k \in MayStart \union SetsOf(codec)}
                 \union {Fresh("aggregate", Sets(codec) \o more) : more \in {<< >>, <<"idr">>}}
                 \union {Fragment(Piece(units + 1, k, 1, FALSE)) : k \in MayStart}
                 \union {Fresh(s, IF s = "cut" THEN <<Sets(codec)[1]>> ELSE << >>) : s \in Odd}
    BY <1>2 DEF Choices
  <2>6. QED
    BY <2>1, <2>2, <2>3, <2>4, <2>5
<1>3. QED
  BY <1>1, <1>2

-----------------------------------------------------------------------------
(* The invariant.  Where the numbering stands: the depacketizer's last     *)
(* number is that of the last packet that arrived.                         *)
PathType ==
  /\ codec \in Codecs /\ decoder \in Decoders /\ track \in Tracks
  /\ sent \in 0 .. LastPacket /\ units \in Nat /\ missed \in 0 .. MaxLoss
  /\ {leading, torn, unseen, shunned, keyShown} \subseteq BOOLEAN
  /\ \A k \in SetKinds : track.sets[k] <= units

Position ==
  /\ missed <= sent
  /\ missed = sent => decoder.last = 0 /\ decoder.fu
  /\ missed < sent => decoder.last = (Start + (sent - missed)) % SeqMod

(* The unit that is being cut, and what the depacketizer has of it.        *)
Cutting ==
  \/ cutting = NoUnit
  \/ /\ cutting = Piece(units, cutting.kind, cutting.no, FALSE)
     /\ units # 0 /\ cutting.no \in 1 .. MaxPieces - 1 /\ cutting.kind \in Kinds
     /\ cutting.kind \in SliceKinds => ~leading

Begin(unit, kind, n) == [i \in 1 .. n |-> Piece(unit, kind, i, FALSE)]

Collected ==
  /\ decoder.fu => decoder.buffer = << >>
  /\ \A i \in DOMAIN decoder.buffer :
       decoder.buffer[i].no = i /\ decoder.buffer[i].unit = decoder.buffer[1].unit

Merging ==
  ~decoder.fu /\ cutting # NoUnit /\ missed = 0 =>
    decoder.buffer = Begin(cutting.unit, cutting.kind, cutting.no)

(* What a loss does: the group of pictures is dropped once it is seen, and *)
(* taken up again with a key frame that arrived whole.                     *)
Losses ==
  /\ missed # 0 \/ unseen => torn
  /\ missed # 0 /\ decoder.last = 0 => unseen
  /\ torn /\ ~unseen /\ missed = 0 => decoder.gop
  /\ ~torn /\ ~shunned /\ cutting.kind # "idr" => ~decoder.gop
  /\ ~torn /\ cutting.kind = "idr" => ~decoder.fu
  /\ ~decoder.fu /\ missed = 0 /\ cutting.kind = "idr" => ~torn

(* What the track knows: in a group of pictures that lost nothing, once    *)
(* the parameter sets are there the key frame was shown.                   *)
Shown ==
  /\ Ready(track) /\ ~leading /\ ~torn /\ cutting.kind # "idr" => keyShown
  /\ keyShown => track.told
  /\ ~track.told => track.extra = << >>

PathInv == PathType /\ Position /\ Cutting /\ Collected /\ Merging /\ Losses /\ Shown

-----------------------------------------------------------------------------
(* The number of the next packet, and the gap before it.                   *)
Seq1 == (Start + (sent + 1)) % SeqMod
Gap  == missed # 0 /\ decoder.last # 0

(* A number does not follow the last one exactly when packets were lost    *)
(* between, as long as fewer are lost in a row than there are numbers.     *)
LEMMA GapIsSeen ==
  ASSUME PathType, Position
  PROVE  /\ Seq1 \in 0 .. SeqMod - 1
         /\ decoder.last # 0 \/ ~decoder.fu =>
              (Seq1 # (decoder.last + 1) % SeqMod <=> missed # 0)
<1>1. /\ SeqMod \in Nat \ {0} /\ Start \in Nat /\ sent \in Nat /\ missed \in Nat /\ missed < SeqMod
  BY PathAssumption DEF PathType
<1>2. Start + (sent + 1) \in Nat
  BY <1>1
<1>3. Seq1 \in 0 .. SeqMod - 1
  BY <1>1, <1>2, Division DEF Seq1
<1>4. ASSUME decoder.last # 0 \/ ~decoder.fu
      PROVE  Seq1 # (decoder.last + 1) % SeqMod <=> missed # 0
  <2>1. missed < sent
    BY <1>1, <1>4 DEF Position
  <2>2. decoder.last = (Start + (sent - missed)) % SeqMod
    BY <2>1 DEF Position
  <2> DEFINE a == Start + (sent - missed)
  <2>3. a \in Nat /\ a + missed + 1 = Start + (sent + 1)
    BY <1>1, <2>1
  <2> HIDE DEF a
  <2>4. (a + missed + 1) % SeqMod = ((a % SeqMod) + 1) % SeqMod <=> missed = 0
    BY <1>1, <2>3, Follows
  <2>5. QED
    BY <2>2, <2>3, <2>4 DEF Seq1, a
<1>5. QED
  BY <1>3, <1>4

(* What a packet that arrives makes of the decoder.                        *)
Gives(gop, fu, buffer, frames) ==
  /\ decoder' \in Decoders
  /\ decoder'.gop = (gop \/ Gap) /\ decoder'.fu = fu /\ decoder'.last = Seq1
  /\ decoder'.buffer = buffer /\ decoder'.frames = frames

(* What decoding gives is what the call gives, but that a gap before the   *)
(* packet drops the group of pictures.                                     *)
LEMMA GivesIs ==
  ASSUME PathType, Position, NEW choice, Send(choice, FALSE),
         NEW d \in Decoders, d = Decoded(Seq1, choice.packet), d.last = decoder.last
  PROVE  Gives(d.gop, d.fu, d.buffer, d.frames)
<1>1. decoder' = InputRtp(Seq1, choice.packet)
  BY DEF Send, Seq1
<1>2. decoder' = [d EXCEPT !.gop = d.gop \/ SeesGap(d, Seq1), !.last = Seq1]
  BY <1>1, InputIs
<1>3. (d.gop \/ SeesGap(d, Seq1)) = (d.gop \/ Gap)
  BY GapIsSeen DEF SeesGap, Gap
<1> DEFINE gop == d.gop \/ Gap
           d1 == [d EXCEPT !.gop = gop]
<1>4. decoder' = [d1 EXCEPT !.last = Seq1]
  BY <1>2, <1>3
<1>5. gop \in BOOLEAN
  OBVIOUS
<1> HIDE DEF gop
<1>6. d1 = [gop |-> gop, fu |-> d.fu, last |-> d.last, buffer |-> d.buffer, frames |-> d.frames]
  BY DEF Decoders
<1> HIDE DEF d1
<1>7. decoder' = [gop |-> gop, fu |-> d.fu, last |-> Seq1, buffer |-> d.buffer, frames |-> d.frames]
  BY <1>4, <1>6
<1>8. /\ d.fu \in BOOLEAN /\ Seq1 \in 0 .. SeqMod - 1
      /\ d.buffer \in Seq(Pieces) /\ d.frames \in Seq(Seq(Pieces))
  BY GapIsSeen DEF Decoders
<1>9. decoder' \in Decoders
  BY <1>5, <1>7, <1>8 DEF Decoders
<1>10. QED
  BY <1>7, <1>9 DEF Gives, gop

(* The call begins with no frames and leaves the rest of the decoder alone.*)
LEMMA BegunIs ==
  ASSUME decoder \in Decoders
  PROVE  /\ Begun \in Decoders
         /\ Begun.gop = decoder.gop /\ Begun.fu = decoder.fu /\ Begun.last = decoder.last
         /\ Begun.buffer = decoder.buffer /\ Begun.frames = << >>
<1>1. Begun = [gop |-> decoder.gop, fu |-> decoder.fu, last |-> decoder.last,
               buffer |-> decoder.buffer, frames |-> << >>]
  BY SMTT(30) DEF Begun, Decoders
<1>2. << >> \in Seq(Seq(Pieces))
  OBVIOUS
<1>3. /\ decoder.gop \in BOOLEAN /\ decoder.fu \in BOOLEAN /\ decoder.last \in 0 .. SeqMod - 1
      /\ decoder.buffer \in Seq(Pieces)
  BY DEF Decoders
<1> HIDE DEF Begun
<1>4. Begun \in Decoders
  BY <1>1, <1>2, <1>3 DEF Decoders
<1>5. QED
  BY <1>1, <1>4

(* The kinds of units that are sent alone, in fragments and as parameter   *)
(* sets.                                                                   *)
LEMMA KindsAre ==
  ASSUME codec \in Codecs
  PROVE  /\ MayStart \subseteq Kinds /\ Kinds \subseteq SliceKinds \union OtherKinds
         /\ SetsOf(codec) \subseteq SetKinds /\ Kinds \subseteq AllKinds
         /\ Sets(codec)[1] \in SetKinds
<1>1. MayStart \subseteq Kinds /\ Kinds \subseteq SliceKinds \union OtherKinds
  BY PathAssumption DEF MayStart
<1>2. Kinds \subseteq AllKinds
  BY <1>1 DEF AllKinds
<1>3. SetsOf(codec) \subseteq SetKinds /\ Sets(codec)[1] \in SetKinds
  <2>1. Sets(codec) = H264Sets \/ Sets(codec) = H265Sets
    BY DEF Sets, Codecs
  <2>2. \A i \in 1 .. 2 : H264Sets[i] = "sps" \/ H264Sets[i] = "pps"
    BY SetsAre
  <2>3. \A i \in 1 .. 3 : H265Sets[i] = "vps" \/ H265Sets[i] = "sps" \/ H265Sets[i] = "pps"
    BY SetsAre
  <2>4. QED
    BY <2>1, <2>2, <2>3, SetsAre DEF SetKinds, SetsOf
<1>4. QED
  BY <1>1, <1>2, <1>3

-----------------------------------------------------------------------------
(* A unit in a packet of its own. *)
LEMMA SingleGives ==
  ASSUME PathInv, NEW choice, NEW k, IsSingle(choice, k), Send(choice, FALSE)
  PROVE  Gives(decoder.gop /\ k # "idr", decoder.fu, << >>,
               IF ~decoder.gop \/ k = "idr" \/ k \in SetKinds
               THEN << <<Whole(units + 1, k)>> >> ELSE << >>)
<1> DEFINE p == choice.packet
           piece == Whole(units + 1, k)
           d == Output(Begun, <<piece>>)
<1>1. PathType /\ Position /\ codec \in Codecs /\ units + 1 \in Nat /\ k \in AllKinds
  BY KindsAre DEF PathInv, PathType, IsSingle, AllKinds
<1>2. piece \in Pieces /\ piece.kind = k
  BY <1>1, WholeIsPiece
<1>3. p.structure = "single" /\ p.pieces = <<piece>>
  BY DEF IsSingle
<1> HIDE DEF piece, p
<1>4. Begun \in Decoders
  BY <1>1, BegunIs DEF PathType
<1>5. Decoded(Seq1, p) = d
  <2>1. Len(p.pieces) \in Nat /\ p.pieces[1] = piece
    BY <1>2, <1>3
  <2>2. Decoded(Seq1, p) = H264!SingleFrame(Begun, piece)
    BY <1>1, <1>3, <2>1, DecodedIs DEF PathType
  <2>3. QED
    BY <1>4, <2>2, SingleIs
<1>6. (KeyFrame(<<piece>>) <=> k = "idr") /\ (ConfigFrame(<<piece>>) <=> k \in SetKinds)
  BY <1>2 DEF KeyFrame, ConfigFrame, Kind
<1> DEFINE frames == IF ~decoder.gop \/ k = "idr" \/ k \in SetKinds THEN << <<piece>> >> ELSE << >>
           gop == decoder.gop /\ k # "idr"
<1>7. d = [gop |-> gop, fu |-> decoder.fu, last |-> decoder.last, buffer |-> << >>, frames |-> frames]
  <2>1. (Begun.gop /\ ~KeyFrame(<<piece>>)) = gop
    BY <1>1, <1>6, BegunIs DEF PathType
  <2>2. (IF ~Begun.gop \/ KeyFrame(<<piece>>) \/ ConfigFrame(<<piece>>)
         THEN Append(Begun.frames, <<piece>>) ELSE Begun.frames) = frames
    <3>1. Begun.frames = << >> /\ Begun.gop = decoder.gop /\ Append(<< >>, <<piece>>) = << <<piece>> >>
      BY <1>1, <1>2, BegunIs DEF PathType
    <3>2. QED
      BY <1>6, <3>1
  <2>3. Begun.fu = decoder.fu /\ Begun.last = decoder.last
    BY <1>1, BegunIs DEF PathType
  <2>4. QED
    BY <2>1, <2>2, <2>3 DEF Output
<1>8. frames \in Seq(Seq(Pieces)) /\ gop \in BOOLEAN /\ << >> \in Seq(Pieces)
      /\ decoder.fu \in BOOLEAN /\ decoder.last \in 0 .. SeqMod - 1
  BY <1>1, <1>2 DEF PathType, Decoders
<1> HIDE DEF d, frames, gop
<1>9. d \in Decoders
  BY <1>7, <1>8 DEF Decoders
<1>10. d.gop = gop /\ d.fu = decoder.fu /\ d.last = decoder.last /\ d.buffer = << >> /\ d.frames = frames
  BY <1>7
<1>11. Gives(d.gop, d.fu, d.buffer, d.frames)
  BY <1>1, <1>5, <1>9, <1>10, GivesIs DEF p
<1>12. QED
  BY <1>10, <1>11 DEF gop, frames, piece

(* Parameter sets in one packet, alone or with a key frame after them.      *)
LEMMA UnitsAre ==
  ASSUME PathInv, NEW more \in {<< >>, <<"idr">>}
  PROVE  LET kinds == Sets(codec) \o more
         IN  /\ Len(kinds) \in 2 .. 4 /\ DOMAIN kinds = 1 .. Len(kinds)
             /\ Units(kinds) = [i \in 1 .. Len(kinds) |-> Whole(units + i, kinds[i])]
             /\ Units(kinds) \in Seq(Pieces) /\ Len(Units(kinds)) = Len(kinds)
             /\ \A i \in 1 .. Len(kinds) : kinds[i] \in SetKinds \union {"idr"}
             /\ (\E i \in 1 .. Len(kinds) : kinds[i] = "idr") <=> more # << >>
<1> DEFINE kinds == Sets(codec) \o more
           n == Len(kinds)
<1>1. Sets(codec) = H264Sets \/ Sets(codec) = H265Sets
  BY DEF PathInv, PathType, Codecs, Sets
<1>2. /\ H264Sets \in Seq(SetKinds) /\ H265Sets \in Seq(SetKinds)
  BY DEF H264Sets, H265Sets, SetKinds
<1>3. kinds \in Seq(SetKinds \union {"idr"}) /\ n \in 2 .. 4
  <2>1. more \in Seq(SetKinds \union {"idr"}) /\ (Len(more) = 0 \/ Len(more) = 1)
    <3>1. CASE more = << >>
      BY <3>1
    <3>2. CASE more = <<"idr">>
      BY <3>2
    <3>3. QED
      BY <3>1, <3>2
  <2>2. Sets(codec) \in Seq(SetKinds \union {"idr"}) /\ (Len(Sets(codec)) = 2 \/ Len(Sets(codec)) = 3)
    BY <1>1, <1>2, SetsAre
  <2>3. kinds \in Seq(SetKinds \union {"idr"}) /\ n = Len(Sets(codec)) + Len(more)
    BY <2>1, <2>2
  <2> DEFINE l == Len(Sets(codec))
             m == Len(more)
  <2>4. (l = 2 \/ l = 3) /\ (m = 0 \/ m = 1) /\ n = l + m
    BY <2>1, <2>2, <2>3
  <2> HIDE DEF kinds, n, l, m
  <2>5. n \in 2 .. 4
    BY <2>4
  <2>6. QED
    BY <2>3, <2>5
<1>4. (\E i \in 1 .. n : kinds[i] = "idr") <=> more # << >>
  <2>1. Sets(codec) \in Seq(SetKinds) /\ "idr" \notin SetKinds
    BY <1>1, <1>2 DEF SetKinds
  <2>2. CASE more = << >>
    <3>1. kinds = Sets(codec)
      BY <2>1, <2>2
    <3>2. \A i \in 1 .. n : kinds[i] \in SetKinds
      BY <2>1, <3>1
    <3>3. QED
      BY <2>1, <2>2, <3>2
  <2>3. CASE more = <<"idr">>
    <3>1. n = Len(Sets(codec)) + 1 /\ kinds[Len(Sets(codec)) + 1] = "idr"
      BY <2>1, <2>3
    <3>2. Len(Sets(codec)) + 1 \in 1 .. n
      BY <2>1, <3>1
    <3>3. more # << >>
      BY <2>3
    <3>4. QED
      BY <3>1, <3>2, <3>3
  <2>4. QED
    BY <2>2, <2>3
<1>5. DOMAIN kinds = 1 .. n /\ \A i \in 1 .. n : kinds[i] \in SetKinds \union {"idr"}
  BY <1>3
<1> HIDE DEF kinds, n
<1>6. Units(kinds) = [i \in 1 .. n |-> Whole(units + i, kinds[i])]
  BY <1>5 DEF Units
<1>7. \A i \in 1 .. n : Whole(units + i, kinds[i]) \in Pieces
  <2>1. ASSUME NEW i \in 1 .. n PROVE Whole(units + i, kinds[i]) \in Pieces
    <3>1. units + i \in Nat /\ kinds[i] \in AllKinds
      BY <1>3, <1>5 DEF PathInv, PathType, AllKinds, SliceKinds
    <3>2. QED
      BY <3>1, WholeIsPiece
  <2>2. QED
    BY <2>1
<1>8. Units(kinds) \in Seq(Pieces) /\ Len(Units(kinds)) = n
  <2>1. n \in Nat
    BY <1>3
  <2>2. QED
    BY <1>6, <1>7, <2>1
<1>9. QED
  BY <1>3, <1>4, <1>5, <1>6, <1>8 DEF kinds, n

(* Parameter sets in one packet come out as frames, and so does the key    *)
(* frame after them, which ends the dropping.                              *)
LEMMA AggregateGives ==
  ASSUME PathInv, NEW choice, NEW more \in {<< >>, <<"idr">>}, IsAggregate(choice, more),
         Send(choice, FALSE)
  PROVE  LET kinds == Sets(codec) \o more
         IN  Gives(decoder.gop /\ more = << >>, decoder.fu, << >>,
                   [i \in 1 .. Len(kinds) |-> <<Whole(units + i, kinds[i])>>])
<1> DEFINE kinds == Sets(codec) \o more
           n == Len(kinds)
           p == choice.packet
           pieces == Units(kinds)
           d == UnpackedTo(Begun, pieces, n)
<1>1. /\ n \in 2 .. 4 /\ pieces = [i \in 1 .. n |-> Whole(units + i, kinds[i])]
      /\ pieces \in Seq(Pieces) /\ Len(pieces) = n
      /\ \A i \in 1 .. n : kinds[i] \in SetKinds \union {"idr"}
      /\ (\E i \in 1 .. n : kinds[i] = "idr") <=> more # << >>
  BY UnitsAre
<1>2. PathType /\ Position /\ codec \in Codecs /\ units \in Nat /\ decoder \in Decoders
  BY DEF PathInv, PathType
<1>3. p.structure = "aggregate" /\ p.pieces = pieces
  BY DEF IsAggregate
<1> HIDE DEF kinds, n, p, pieces, d
<1>4. /\ Begun \in Decoders /\ Begun.frames = << >> /\ Begun.gop = decoder.gop
      /\ Begun.fu = decoder.fu /\ Begun.last = decoder.last
  BY <1>2, BegunIs
<1>5. \A i \in 1 .. n : pieces[i].kind = kinds[i]
  <2>1. ASSUME NEW i \in 1 .. n PROVE pieces[i].kind = kinds[i]
    BY <1>1 DEF Whole, Piece
  <2>2. QED
    BY <2>1
<1>6. H264!UnpackStapA(Begun, pieces) = d /\ d \in Decoders
  <2>1. \A i \in 1 .. Len(pieces) : pieces[i].kind \in SetKinds \union {"idr"}
    BY <1>1, <1>5
  <2>2. QED
    BY <1>1, <1>4, <2>1, UnpackIs DEF d
<1>7. Decoded(Seq1, p) = d
  <2>1. Len(p.pieces) \in Nat
    BY <1>1, <1>3
  <2>2. QED
    BY <1>2, <1>3, <1>6, <2>1, DecodedIs
<1>8. /\ d.gop = (decoder.gop /\ more = << >>) /\ d.fu = decoder.fu /\ d.last = decoder.last
      /\ d.buffer = << >> /\ d.frames = [i \in 1 .. n |-> <<Whole(units + i, kinds[i])>>]
  <2>1. d.gop = (Begun.gop /\ ~\E j \in 1 .. n : pieces[j].kind = "idr") /\ d.fu = Begun.fu
        /\ d.last = Begun.last /\ d.frames = [j \in 1 .. n |-> <<pieces[j]>>]
        /\ d.buffer = IF n = 0 THEN Begun.buffer ELSE << >>
    BY DEF d, UnpackedTo
  <2>2. (\E j \in 1 .. n : pieces[j].kind = "idr") <=> more # << >>
    BY <1>1, <1>5
  <2>3. n # 0
    BY <1>1
  <2>4. [j \in 1 .. n |-> <<pieces[j]>>] = [i \in 1 .. n |-> <<Whole(units + i, kinds[i])>>]
    <3>1. \A j \in 1 .. n : pieces[j] = Whole(units + j, kinds[j])
      BY <1>1
    <3>2. QED
      BY <3>1, Zenon
  <2>5. QED
    BY <1>4, <2>1, <2>2, <2>3, <2>4
<1>9. Gives(d.gop, d.fu, d.buffer, d.frames)
  BY <1>2, <1>6, <1>7, <1>8, GivesIs DEF p
<1>10. QED
  BY <1>8, <1>9 DEF kinds, n

(* A packet with a parameter set, and another one cut short.               *)
LEMMA CutGives ==
  ASSUME PathInv, NEW choice, IsCut(choice), Send(choice, FALSE)
  PROVE  Gives(TRUE, decoder.fu, << >>, << <<Whole(units + 1, Sets(codec)[1])>> >>)
<1> DEFINE p == choice.packet
           piece == Whole(units + 1, Sets(codec)[1])
           d == UnpackedTo(Begun, <<piece>>, 1)
<1>1. PathType /\ Position /\ codec \in Codecs /\ units + 1 \in Nat /\ decoder \in Decoders
  BY DEF PathInv, PathType
<1>2. Sets(codec)[1] \in SetKinds /\ Sets(codec)[1] \in AllKinds
  BY <1>1, KindsAre DEF AllKinds
<1>3. piece \in Pieces /\ piece.kind \in SetKinds
  BY <1>1, <1>2, WholeIsPiece
<1>4. p.structure = "cut" /\ p.pieces = <<piece>>
  BY DEF IsCut
<1> HIDE DEF p, piece, d
<1>5. /\ Begun \in Decoders /\ Begun.frames = << >> /\ Begun.gop = decoder.gop
      /\ Begun.fu = decoder.fu /\ Begun.last = decoder.last
  BY <1>1, BegunIs
<1>6. <<piece>> \in Seq(Pieces) /\ Len(<<piece>>) = 1 /\ <<piece>>[1] = piece
  BY <1>3
<1>7. H264!UnpackStapA(Begun, <<piece>>) = d /\ d \in Decoders
  <2>1. \A i \in 1 .. Len(<<piece>>) : <<piece>>[i].kind \in SetKinds \union {"idr"}
    BY <1>3, <1>6
  <2>2. /\ H264!UnpackStapA(Begun, <<piece>>) = UnpackedTo(Begun, <<piece>>, Len(<<piece>>))
        /\ UnpackedTo(Begun, <<piece>>, Len(<<piece>>)) \in Decoders
    BY <1>5, <1>6, <2>1, UnpackIs
  <2>3. QED
    BY <1>6, <2>2 DEF d
<1>8. /\ d.fu = decoder.fu /\ d.last = decoder.last /\ d.buffer = << >> /\ d.frames = << <<piece>> >>
  <2>1. d.fu = Begun.fu /\ d.last = Begun.last /\ d.buffer = << >>
        /\ d.frames = [j \in 1 .. 1 |-> <<(<<piece>>[j])>>]
    BY DEF d, UnpackedTo
  <2>2. [j \in 1 .. 1 |-> <<(<<piece>>[j])>>] = << <<piece>> >>
    BY <1>6
  <2>3. QED
    BY <1>5, <2>1, <2>2
<1> DEFINE c == [d EXCEPT !.gop = TRUE]
<1>9. Decoded(Seq1, p) = c
  <2>1. Len(p.pieces) \in Nat
    BY <1>4, <1>6
  <2>2. QED
    BY <1>1, <1>4, <1>7, <2>1, DecodedIs
<1>10. c \in Decoders /\ c.gop = TRUE /\ c.fu = d.fu /\ c.last = d.last /\ c.buffer = d.buffer
       /\ c.frames = d.frames
  BY <1>7 DEF Decoders
<1> HIDE DEF c
<1>11. Gives(c.gop, c.fu, c.buffer, c.frames)
  BY <1>1, <1>8, <1>9, <1>10, GivesIs DEF p
<1>12. QED
  BY <1>8, <1>10, <1>11 DEF piece

(* A packet without use: the empty one changes nothing.                    *)
LEMMA UselessGives ==
  ASSUME PathInv, NEW choice, IsUseless(choice), Send(choice, FALSE)
  PROVE  Gives(decoder.gop \/ choice.packet.structure = "unsupported", decoder.fu,
               decoder.buffer, << >>)
<1> DEFINE p == choice.packet
           gop == decoder.gop \/ p.structure = "unsupported"
           d == [Begun EXCEPT !.gop = gop]
<1>1. PathType /\ Position /\ codec \in Codecs /\ decoder \in Decoders
  BY DEF PathInv, PathType
<1>2. p.structure \in {"empty", "unsupported"} /\ p.pieces = << >>
  BY DEF IsUseless
<1> HIDE DEF p
<1>3. /\ Begun \in Decoders /\ Begun.frames = << >> /\ Begun.gop = decoder.gop
      /\ Begun.fu = decoder.fu /\ Begun.last = decoder.last /\ Begun.buffer = decoder.buffer
  BY <1>1, BegunIs
<1>4. gop \in BOOLEAN /\ decoder.gop \in BOOLEAN
  BY <1>1 DEF Decoders
<1>5. Decoded(Seq1, p) = d
  <2>1. Len(p.pieces) \in Nat
    BY <1>2
  <2>2. CASE p.structure = "empty"
    <3>1. gop = decoder.gop
      BY <1>4, <2>2
    <3> HIDE DEF gop
    <3>2. d = Begun
      BY <1>3, <3>1 DEF Decoders
    <3>3. QED
      BY <1>1, <2>1, <2>2, <3>2, DecodedIs
  <2>3. CASE p.structure = "unsupported"
    <3>1. gop = TRUE
      BY <2>3
    <3> HIDE DEF gop
    <3>2. QED
      BY <1>1, <2>1, <2>3, <3>1, DecodedIs
  <2>4. QED
    BY <1>2, <2>2, <2>3
<1> HIDE DEF gop
<1>6. d \in Decoders /\ d.gop = gop /\ d.fu = Begun.fu /\ d.last = Begun.last
      /\ d.buffer = Begun.buffer /\ d.frames = Begun.frames
  BY <1>3, <1>4 DEF Decoders
<1> HIDE DEF d
<1>7. Gives(d.gop, d.fu, d.buffer, d.frames)
  BY <1>1, <1>3, <1>5, <1>6, GivesIs DEF p
<1>8. QED
  BY <1>3, <1>6, <1>7 DEF p, gop

-----------------------------------------------------------------------------
(* A decoder with its fragment flag changed, field by field.               *)
LEMMA FuExcept ==
  ASSUME NEW d \in Decoders, NEW fu
  PROVE  [d EXCEPT !.fu = fu] =
           [gop |-> d.gop, fu |-> fu, last |-> d.last, buffer |-> d.buffer, frames |-> d.frames]
  BY DEF Decoders

(* A decoder with its fragment flag and its buffer changed, field by field.*)
LEMMA FuBufferExcept ==
  ASSUME NEW d \in Decoders, NEW fu, NEW buffer
  PROVE  [d EXCEPT !.fu = fu, !.buffer = buffer] =
           [gop |-> d.gop, fu |-> fu, last |-> d.last, buffer |-> buffer, frames |-> d.frames]
<1> DEFINE d1 == [d EXCEPT !.fu = fu]
<1>1. d1 = [gop |-> d.gop, fu |-> fu, last |-> d.last, buffer |-> d.buffer, frames |-> d.frames]
  BY FuExcept
<1> HIDE DEF d1
<1>2. [d1 EXCEPT !.buffer = buffer] =
        [gop |-> d.gop, fu |-> fu, last |-> d.last, buffer |-> buffer, frames |-> d.frames]
  BY <1>1
<1>3. QED
  BY <1>2 DEF d1

(* Fragments.  What mergeFu does with one, by what it makes of it.          *)
LEMMA MergeIs ==
  ASSUME NEW d \in Decoders, NEW seq, NEW piece \in Pieces, NEW appended,
         appended = Append(IF piece.no = 1 THEN << >> ELSE d.buffer, piece)
  PROVE  /\ piece.no # 1 /\ d.fu => H264!MergeFu(d, seq, piece) = d
         /\ piece.no # 1 /\ ~d.fu /\ seq # (d.last + 1) % SeqMod =>
              H264!MergeFu(d, seq, piece) =
                [gop |-> d.gop, fu |-> TRUE, last |-> d.last, buffer |-> << >>, frames |-> d.frames]
         /\ piece.no = 1 \/ (~d.fu /\ seq = (d.last + 1) % SeqMod) =>
              H264!MergeFu(d, seq, piece) =
                IF piece.last
                THEN Output([gop |-> d.gop, fu |-> TRUE, last |-> d.last, buffer |-> d.buffer,
                             frames |-> d.frames], appended)
                ELSE [gop |-> d.gop, fu |-> FALSE, last |-> d.last, buffer |-> appended,
                      frames |-> d.frames]
<1> DEFINE d1 == [d EXCEPT !.fu = TRUE]
           begins == piece.no = 1
           next == seq = (d.last + 1) % SeqMod
<1>1. d1 = [gop |-> d.gop, fu |-> TRUE, last |-> d.last, buffer |-> d.buffer, frames |-> d.frames]
  BY FuExcept
<1>2. d1 \in Decoders
  <2>1. d.gop \in BOOLEAN /\ d.last \in 0 .. SeqMod - 1 /\ d.buffer \in Seq(Pieces)
        /\ d.frames \in Seq(Seq(Pieces))
    BY DEF Decoders
  <2> HIDE DEF d1
  <2>2. QED
    BY <1>1, <2>1 DEF Decoders
<1>3. [d1 EXCEPT !.buffer = << >>] =
        [gop |-> d.gop, fu |-> TRUE, last |-> d.last, buffer |-> << >>, frames |-> d.frames]
  BY FuBufferExcept
<1>4. [d EXCEPT !.fu = FALSE, !.buffer = appended] =
        [gop |-> d.gop, fu |-> FALSE, last |-> d.last, buffer |-> appended, frames |-> d.frames]
  BY FuBufferExcept
<1>5. ASSUME ~begins, d.fu PROVE H264!MergeFu(d, seq, piece) = d
  BY <1>5 DEF H264!MergeFu
<1>6. ASSUME ~begins, ~d.fu, ~next
      PROVE  H264!MergeFu(d, seq, piece) = [d1 EXCEPT !.buffer = << >>]
  BY <1>6 DEF H264!MergeFu
<1>7. ASSUME begins \/ (~d.fu /\ next)
      PROVE  H264!MergeFu(d, seq, piece) =
               IF piece.last THEN H264!OutputFrame(d1, appended)
               ELSE [d EXCEPT !.fu = FALSE, !.buffer = appended]
  BY <1>7 DEF H264!MergeFu
<1>8. H264!OutputFrame(d1, appended) = Output(d1, appended)
  BY <1>2, OutputIs
<1>9. QED
  BY <1>1, <1>3, <1>4, <1>5, <1>6, <1>7, <1>8

(* The first fragment of a unit begins it anew.                            *)
LEMMA FirstGives ==
  ASSUME PathInv, NEW choice, NEW k, IsFirst(choice, k), Send(choice, FALSE)
  PROVE  Gives(decoder.gop, FALSE, Begin(units + 1, k, 1), << >>)
<1> DEFINE p == choice.packet
           piece == Piece(units + 1, k, 1, FALSE)
           d == [gop |-> Begun.gop, fu |-> FALSE, last |-> Begun.last, buffer |-> <<piece>>,
                 frames |-> Begun.frames]
<1>1. PathType /\ Position /\ codec \in Codecs /\ units + 1 \in Nat /\ decoder \in Decoders
      /\ k \in AllKinds
  BY KindsAre DEF PathInv, PathType, IsFirst
<1>2. piece \in Pieces /\ piece.no = 1 /\ piece.last = FALSE
  BY <1>1 DEF Piece, Pieces
<1>3. p.structure = "fragment" /\ p.pieces = <<piece>>
  BY DEF IsFirst
<1>4. Begin(units + 1, k, 1) = <<piece>>
  <2> DEFINE part(i) == Piece(units + 1, k, i, FALSE)
  <2>1. Begin(units + 1, k, 1) = [i \in 1 .. 1 |-> part(i)]
    BY Zenon DEF Begin
  <2> HIDE DEF part
  <2>2. [i \in 1 .. 1 |-> part(i)] = <<part(1)>>
    OBVIOUS
  <2>3. QED
    BY <2>1, <2>2, Zenon DEF part
<1> HIDE DEF p, piece, d
<1>5. /\ Begun \in Decoders /\ Begun.frames = << >> /\ Begun.gop = decoder.gop
      /\ Begun.last = decoder.last
  BY <1>1, BegunIs
<1>6. Decoded(Seq1, p) = d
  <2>1. Len(p.pieces) \in Nat /\ p.pieces[1] = piece
    BY <1>2, <1>3
  <2>2. Decoded(Seq1, p) = H264!MergeFu(Begun, Seq1, piece)
    BY <1>1, <1>3, <2>1, DecodedIs
  <2>3. <<piece>> = Append(IF piece.no = 1 THEN << >> ELSE Begun.buffer, piece)
    BY <1>2
  <2>4. H264!MergeFu(Begun, Seq1, piece) = d
    BY <1>2, <1>5, <2>3, MergeIs DEF d
  <2>5. QED
    BY <2>2, <2>4
<1>7. d \in Decoders
  <2>1. Begun.gop \in BOOLEAN /\ Begun.last \in 0 .. SeqMod - 1 /\ <<piece>> \in Seq(Pieces)
        /\ Begun.frames \in Seq(Seq(Pieces))
    BY <1>2, <1>5 DEF Decoders
  <2>2. QED
    BY <2>1 DEF Decoders, d
<1>8. d.gop = decoder.gop /\ d.fu = FALSE /\ d.last = decoder.last /\ d.buffer = <<piece>>
      /\ d.frames = << >>
  BY <1>5 DEF d
<1>9. Gives(d.gop, d.fu, d.buffer, d.frames)
  BY <1>1, <1>6, <1>7, <1>8, GivesIs DEF p
<1>10. QED
  BY <1>4, <1>8, <1>9

(* All fragments of a unit, in order.                                      *)
AllOf(unit, kind, n) == [i \in 1 .. n |-> Piece(unit, kind, i, i = n)]

(* The next fragment makes a longer beginning of the unit, the last one all*)
(* of it.                                                                  *)
LEMMA BeginAppend ==
  ASSUME NEW unit \in Nat, NEW kind \in AllKinds, NEW n \in Nat
  PROVE  /\ Begin(unit, kind, n) \in Seq(Pieces) /\ Len(Begin(unit, kind, n)) = n
         /\ Append(Begin(unit, kind, n), Piece(unit, kind, n + 1, FALSE)) = Begin(unit, kind, n + 1)
         /\ Append(Begin(unit, kind, n), Piece(unit, kind, n + 1, TRUE)) = AllOf(unit, kind, n + 1)
         /\ AllOf(unit, kind, n + 1) \in Seq(Pieces)
<1> DEFINE part(i) == Piece(unit, kind, i, FALSE)
           end == Piece(unit, kind, n + 1, TRUE)
           all(i) == Piece(unit, kind, i, i = n + 1)
<1>1. (\A i \in Nat : part(i) \in Pieces) /\ end \in Pieces
  BY DEF Piece, Pieces
<1>2. \A m : Begin(unit, kind, m) = [i \in 1 .. m |-> part(i)]
  BY Zenon DEF Begin
<1>3. AllOf(unit, kind, n + 1) = [i \in 1 .. n + 1 |-> all(i)]
  BY Zenon DEF AllOf
<1>4. (\A i \in 1 .. n : all(i) = part(i)) /\ all(n + 1) = end
  <2>1. \A i \in 1 .. n : (i = n + 1) = FALSE
    OBVIOUS
  <2>2. ((n + 1) = n + 1) = TRUE
    OBVIOUS
  <2>3. \A i \in 1 .. n : all(i) = part(i)
    BY <2>1, Zenon
  <2>4. QED
    BY <2>2, <2>3, Zenon
<1> HIDE DEF part, end, all
<1>5. Begin(unit, kind, n) \in Seq(Pieces) /\ Len(Begin(unit, kind, n)) = n
  BY <1>1, <1>2
<1>6. Append(Begin(unit, kind, n), part(n + 1)) = Begin(unit, kind, n + 1)
  BY <1>2, <1>5
<1>7. Append(Begin(unit, kind, n), end) = AllOf(unit, kind, n + 1)
  <2>1. \A i \in 1 .. n + 1 : i \in 1 .. n \/ i = n + 1
    OBVIOUS
  <2>2. QED
    BY <1>2, <1>3, <1>4, <1>5, <2>1
<1>8. AllOf(unit, kind, n + 1) \in Seq(Pieces)
  BY <1>1, <1>5, <1>7
<1>9. QED
  BY <1>5, <1>6, <1>7, <1>8 DEF part, end

(* The next fragment of the unit that is being cut.  It is left out when    *)
(* the unit was torn, and ends the merging when it shows that it was.       *)
LEMMA NextGives ==
  ASSUME PathInv, NEW choice, NEW last, IsNext(choice, last), Send(choice, FALSE)
  PROVE  LET n == cutting.no + 1
             kind == cutting.kind
         IN  /\ decoder.fu \/ missed # 0 => Gives(decoder.gop, TRUE, << >>, << >>)
             /\ ~decoder.fu /\ missed = 0 /\ ~last =>
                  Gives(decoder.gop, FALSE, Begin(units, kind, n), << >>)
             /\ ~decoder.fu /\ missed = 0 /\ last =>
                  Gives(decoder.gop /\ kind # "idr", TRUE, << >>,
                        IF ~decoder.gop \/ kind = "idr" THEN <<AllOf(units, kind, n)>> ELSE << >>)
<1> DEFINE n == cutting.no + 1
           kind == cutting.kind
           p == choice.packet
           piece == Piece(units, kind, n, last)
           d == H264!MergeFu(Begun, Seq1, piece)
           appended == Append(decoder.buffer, piece)
<1>1. /\ PathType /\ Position /\ codec \in Codecs /\ units \in Nat /\ decoder \in Decoders
      /\ last \in BOOLEAN /\ decoder.gop \in BOOLEAN /\ decoder.last \in 0 .. SeqMod - 1
      /\ missed \in Nat /\ (decoder.fu => decoder.buffer = << >>)
  BY PathAssumption DEF PathInv, PathType, Collected, IsNext, Decoders
<1>2. /\ cutting = Piece(units, kind, cutting.no, FALSE) /\ cutting.no \in Nat \ {0}
      /\ kind \in Kinds /\ cutting.unit = units
  <2>1. cutting = Piece(units, kind, cutting.no, FALSE) /\ cutting.no \in 1 .. MaxPieces - 1
        /\ kind \in Kinds
    BY DEF PathInv, Cutting, IsNext
  <2>2. cutting.unit = units
    BY <2>1 DEF Piece
  <2>3. cutting.no \in Nat \ {0}
    BY <2>1, PathAssumption
  <2>4. QED
    BY <2>1, <2>2, <2>3
<1>3. n \in Nat /\ n # 1 /\ n # 0 /\ cutting.no \in Nat /\ kind \in AllKinds /\ kind \notin SetKinds
  BY <1>1, <1>2, KindsAre DEF SliceKinds, OtherKinds, SetKinds
<1>4. p.structure = "fragment" /\ p.pieces = <<piece>>
  BY <1>2 DEF IsNext
<1> HIDE DEF n, kind, p
<1>5. piece \in Pieces /\ piece.no = n /\ piece.last = last
  BY <1>1, <1>3 DEF Piece, Pieces
<1> HIDE DEF piece, d
<1>6. /\ Begun \in Decoders /\ Begun.frames = << >> /\ Begun.gop = decoder.gop
      /\ Begun.last = decoder.last /\ Begun.buffer = decoder.buffer /\ Begun.fu = decoder.fu
  BY <1>1, BegunIs
<1>7. Decoded(Seq1, p) = d
  <2>1. Len(p.pieces) \in Nat /\ p.pieces[1] = piece
    BY <1>5, <1>4
  <2>2. QED
    BY <1>1, <1>4, <2>1, DecodedIs DEF d
<1>8. appended = Append(IF piece.no = 1 THEN << >> ELSE Begun.buffer, piece)
  BY <1>3, <1>5, <1>6
<1>9. ~decoder.fu => (Seq1 # (decoder.last + 1) % SeqMod <=> missed # 0)
  BY <1>1, GapIsSeen
<1>10. ASSUME d \in Decoders, d.last = decoder.last
       PROVE  Gives(d.gop, d.fu, d.buffer, d.frames)
  BY <1>1, <1>7, <1>10, GivesIs DEF p
<1>11. ASSUME decoder.fu PROVE Gives(decoder.gop, TRUE, << >>, << >>)
  <2> HIDE DEF appended
  <2>1. piece.no # 1 /\ Begun.fu
    BY <1>3, <1>5, <1>6, <1>11
  <2>2. d = Begun
    BY <1>6, <2>1 DEF d, H264!MergeFu
  <2>3. d \in Decoders /\ d.gop = decoder.gop /\ d.fu = TRUE /\ d.last = decoder.last
        /\ d.buffer = << >> /\ d.frames = << >>
    BY <1>1, <1>6, <1>11, <2>2 DEF Decoders
  <2>4. QED
    BY <1>10, <2>3
<1>12. ASSUME ~decoder.fu, missed # 0 PROVE Gives(decoder.gop, TRUE, << >>, << >>)
  <2> DEFINE x == [gop |-> Begun.gop, fu |-> TRUE, last |-> Begun.last, buffer |-> << >>,
                   frames |-> Begun.frames]
  <2>1. d = x
    BY <1>3, <1>5, <1>6, <1>8, <1>9, <1>12, MergeIs DEF d
  <2>2. x \in Decoders
    BY <1>6 DEF Decoders
  <2>3. x.gop = decoder.gop /\ x.fu = TRUE /\ x.last = decoder.last
        /\ x.buffer = << >> /\ x.frames = << >>
    BY <1>6
  <2>4. QED
    BY <1>10, <2>1, <2>2, <2>3
<1>13. ASSUME ~decoder.fu, missed = 0
       PROVE  /\ decoder.buffer = Begin(units, kind, cutting.no)
              /\ Seq1 = (Begun.last + 1) % SeqMod /\ ~Begun.fu
  BY <1>2, <1>6, <1>9, <1>13 DEF PathInv, Merging, IsNext, kind
<1>14. ASSUME ~decoder.fu, missed = 0, ~last
       PROVE  Gives(decoder.gop, FALSE, Begin(units, kind, n), << >>)
  <2> DEFINE x == [gop |-> Begun.gop, fu |-> FALSE, last |-> Begun.last, buffer |-> appended,
                   frames |-> Begun.frames]
  <2>1. d = x
    BY <1>5, <1>6, <1>8, <1>13, <1>14, MergeIs DEF d
  <2>2. appended = Begin(units, kind, n)
    <3>1. last = FALSE
      BY <1>1, <1>14
    <3>2. Append(Begin(units, kind, cutting.no), Piece(units, kind, n, FALSE)) = Begin(units, kind, n)
      BY <1>1, <1>3, BeginAppend DEF n
    <3>3. QED
      BY <1>13, <1>14, <3>1, <3>2, Zenon DEF piece
  <2>3. Begin(units, kind, n) \in Seq(Pieces)
    BY <1>1, <1>3, BeginAppend
  <2> HIDE DEF appended
  <2>4. x \in Decoders
    BY <1>6, <2>2, <2>3 DEF Decoders
  <2>5. x.gop = decoder.gop /\ x.fu = FALSE /\ x.last = decoder.last
        /\ x.buffer = Begin(units, kind, n) /\ x.frames = << >>
    BY <1>6, <2>2
  <2>6. QED
    BY <1>10, <2>1, <2>4, <2>5
<1>15. ASSUME ~decoder.fu, missed = 0, last
       PROVE  Gives(decoder.gop /\ kind # "idr", TRUE, << >>,
                    IF ~decoder.gop \/ kind = "idr" THEN <<AllOf(units, kind, n)>> ELSE << >>)
  <2> DEFINE y == [gop |-> Begun.gop, fu |-> TRUE, last |-> Begun.last, buffer |-> Begun.buffer,
                   frames |-> Begun.frames]
             unit == AllOf(units, kind, n)
             frames == IF ~decoder.gop \/ kind = "idr" THEN <<unit>> ELSE << >>
             gop == decoder.gop /\ kind # "idr"
             x == [gop |-> gop, fu |-> TRUE, last |-> decoder.last, buffer |-> << >>,
                   frames |-> frames]
  <2>1. d = Output(y, appended)
    BY <1>5, <1>6, <1>8, <1>13, <1>15, MergeIs, ZenonT(30) DEF d
  <2>2. appended = unit
    <3>1. last = TRUE
      BY <1>1, <1>15
    <3>2. Append(Begin(units, kind, cutting.no), Piece(units, kind, n, TRUE)) = unit
      BY <1>1, <1>3, BeginAppend DEF n
    <3>3. QED
      BY <1>13, <1>15, <3>1, <3>2, Zenon DEF piece
  <2>3. unit \in Seq(Pieces)
    BY <1>1, <1>3, BeginAppend DEF n
  <2>4. Kind(unit) = kind
    <3>1. 1 \in 1 .. n
      BY <1>3
    <3>2. unit[1] = Piece(units, kind, 1, 1 = n)
      BY <3>1, Zenon DEF AllOf
    <3>3. QED
      BY <3>2 DEF Kind, Piece
  <2> HIDE DEF unit, appended
  <2>5. Append(<< >>, unit) = <<unit>>
    BY <2>3
  <2>6. (IF ~Begun.gop \/ KeyFrame(unit) \/ ConfigFrame(unit)
         THEN Append(Begun.frames, unit) ELSE Begun.frames) = frames
    BY <1>3, <1>6, <2>4, <2>5 DEF KeyFrame, ConfigFrame
  <2>7. (Begun.gop /\ ~KeyFrame(unit)) = gop
    BY <1>1, <1>6, <2>4 DEF KeyFrame
  <2>8. d = x
    BY <1>6, <2>1, <2>2, <2>6, <2>7 DEF Output
  <2>9. frames \in Seq(Seq(Pieces)) /\ gop \in BOOLEAN
    BY <1>1, <2>3
  <2> HIDE DEF gop, frames
  <2>10. x \in Decoders
    BY <1>1, <2>9 DEF Decoders
  <2>11. x.gop = gop /\ x.fu = TRUE /\ x.last = decoder.last /\ x.buffer = << >> /\ x.frames = frames
    OBVIOUS
  <2>12. Gives(gop, TRUE, << >>, frames)
    BY <1>10, <2>8, <2>10, <2>11
  <2>13. QED
    BY <2>12 DEF gop, frames, unit
<1>16. QED
  BY <1>11, <1>12, <1>14, <1>15 DEF n, kind

-----------------------------------------------------------------------------
(* What the track makes of what the depacketizer outputs.                  *)
SetTo(t, k, u) == [t EXCEPT !.sets[k] = u]

(* A call that outputs nothing leaves the track as it was.                 *)
LEMMA SilentIs ==
  ASSUME NEW t \in Tracks
  PROVE  /\ Silent(t) \in Tracks /\ Silent(t).sets = t.sets /\ Silent(t).told = t.told
         /\ Silent(t).extra = t.extra /\ Silent(t).shown = << >>
         /\ Ready(Silent(t)) <=> Ready(t)
<1>1. t = [sets |-> t.sets, told |-> t.told, extra |-> t.extra, shown |-> t.shown]
  BY DEF Tracks
<1>2. Silent(t) = [sets |-> t.sets, told |-> t.told, extra |-> t.extra, shown |-> << >>]
  BY <1>1 DEF Silent
<1>3. t.sets \in [SetKinds -> Nat] /\ t.told \in BOOLEAN /\ t.extra \in Seq(Pieces)
      /\ << >> \in Seq(Seq(Pieces))
  BY DEF Tracks
<1> HIDE DEF Silent
<1>4. /\ Silent(t).sets = t.sets /\ Silent(t).told = t.told
      /\ Silent(t).extra = t.extra /\ Silent(t).shown = << >>
  BY <1>2
<1>5. Silent(t) \in Tracks
  BY <1>2, <1>3 DEF Tracks
<1>6. QED
  BY <1>4, <1>5 DEF Ready, H264Ready, H265Ready

(* A parameter set that was kept changes no other, and tells nothing.      *)
LEMMA SetToIs ==
  ASSUME NEW t \in Tracks, NEW k \in SetKinds, NEW u \in Nat
  PROVE  /\ SetTo(t, k, u) \in Tracks /\ SetTo(t, k, u).sets = [t.sets EXCEPT ![k] = u]
         /\ SetTo(t, k, u).told = t.told /\ SetTo(t, k, u).extra = t.extra
         /\ SetTo(t, k, u).shown = t.shown
  BY DEF SetTo, Tracks

(* A key frame that is shown tells the parameters, once.                   *)
LEMMA ShowsKeyIs ==
  ASSUME codec \in Codecs, NEW t \in Tracks, NEW frame \in Seq(Pieces)
  PROVE  /\ ShowsKey(t, frame) \in Tracks /\ ShowsKey(t, frame).sets = t.sets
         /\ ShowsKey(t, frame).told = TRUE
         /\ ShowsKey(t, frame).extra = (IF t.told THEN t.extra ELSE Extra(t))
         /\ ShowsKey(t, frame).shown = Append(t.shown, frame)
         /\ (Ready(ShowsKey(t, frame)) <=> Ready(t)) /\ Extra(ShowsKey(t, frame)) = Extra(t)
<1> DEFINE r == ShowsKey(t, frame)
           told == TRUE
           shown == Append(t.shown, frame)
           extra == IF t.told THEN t.extra ELSE Extra(t)
<1>1. extra \in Seq(Pieces) /\ shown \in Seq(Seq(Pieces)) /\ told \in BOOLEAN
  BY ExtraType DEF Tracks
<1> HIDE DEF told, shown, extra
<1>2. [t EXCEPT !.told = told, !.shown = shown, !.extra = extra] =
        [sets |-> t.sets, told |-> told, extra |-> extra, shown |-> shown]
  BY TrackExcept3
<1>3. r = [sets |-> t.sets, told |-> told, extra |-> extra, shown |-> shown]
  BY <1>2 DEF ShowsKey, told, shown, extra
<1> HIDE DEF r
<1>4. r \in Tracks /\ r.sets = t.sets /\ r.told = told /\ r.extra = extra /\ r.shown = shown
  BY <1>1, <1>3 DEF Tracks
<1>5. (Ready(r) <=> Ready(t)) /\ Extra(r) = Extra(t)
  BY <1>4 DEF Ready, H264Ready, H265Ready, Extra
<1>6. QED
  BY <1>4, <1>5 DEF r, told, shown, extra

(* Another frame that is shown tells nothing.                              *)
LEMMA ShowsIs ==
  ASSUME NEW t \in Tracks, NEW frame \in Seq(Pieces), NEW r, r = Shows(t, frame)
  PROVE  /\ r \in Tracks /\ r.sets = t.sets /\ r.told = t.told /\ r.extra = t.extra
         /\ r.shown = Append(t.shown, frame) /\ (Ready(r) <=> Ready(t))
<1> DEFINE shown == Append(t.shown, frame)
<1>1. shown \in Seq(Seq(Pieces)) /\ t.sets \in [SetKinds -> Nat] /\ t.told \in BOOLEAN
      /\ t.extra \in Seq(Pieces)
  BY DEF Tracks
<1>2. t = [sets |-> t.sets, told |-> t.told, extra |-> t.extra, shown |-> t.shown]
  BY DEF Tracks
<1> HIDE DEF shown
<1>3. r = [sets |-> t.sets, told |-> t.told, extra |-> t.extra, shown |-> shown]
  BY <1>2 DEF Shows, shown
<1>4. r \in Tracks /\ r.sets = t.sets /\ r.told = t.told /\ r.extra = t.extra /\ r.shown = shown
  BY <1>1, <1>3 DEF Tracks
<1>5. QED
  BY <1>4 DEF shown, Ready, H264Ready, H265Ready

(* No frame: nothing changes.                                              *)
LEMMA NoFrame ==
  ASSUME NEW t
  PROVE  InputFrames(codec, t, << >>) = Silent(t)
<1> DEFINE frames == << >>
<1>1. Len(frames) = 0
  OBVIOUS
<1> HIDE DEF frames
<1>2. PICK e : FrameByFrame(t, frames, e)
  BY <1>1, FramesAre
<1>3. QED
  BY <1>1, <1>2 DEF FrameByFrame, frames

(* One frame goes through the track once.                                  *)
LEMMA OneFrame ==
  ASSUME NEW t, NEW frame
  PROVE  InputFrames(codec, t, <<frame>>) = InputFrame(Silent(t), frame)
<1> DEFINE frames == <<frame>>
<1>1. Len(frames) = 1 /\ frames[1] = frame
  OBVIOUS
<1> HIDE DEF frames
<1>2. PICK e : FrameByFrame(t, frames, e)
  BY <1>1, FramesAre
<1>3. 1 \in 1 .. Len(frames) /\ 1 - 1 = 0
  BY <1>1
<1>4. e[1] = InputFrame(e[1 - 1], frames[1])
  BY <1>2, <1>3 DEF FrameByFrame
<1>5. QED
  BY <1>1, <1>2, <1>3, <1>4 DEF FrameByFrame, frames

(* The parameter sets of a packet, and a key frame after them.             *)
SetsOut(t, u, n, more, r) ==
  /\ r \in Tracks /\ \A k \in SetKinds : r.sets[k] <= u + n
  /\ more = << >> => r.told = t.told /\ r.extra = t.extra /\ r.shown = << >>
  /\ more # << >> =>
       /\ r.told = TRUE /\ r.extra = (IF t.told THEN t.extra ELSE Extra(r))
       /\ r.shown = << <<Whole(u + n, "idr")>> >>

(* Parameter sets in one packet are kept one after the other; a key frame  *)
(* after them is shown with all of them.                                   *)
LEMMA AllSets ==
  ASSUME codec \in Codecs, NEW t \in Tracks, NEW u \in Nat, \A k \in SetKinds : t.sets[k] <= u,
         ~t.told => t.extra = << >>, NEW more \in {<< >>, <<"idr">>},
         NEW kinds, kinds = Sets(codec) \o more,
         NEW frames, frames = [i \in 1 .. Len(kinds) |-> <<Whole(u + i, kinds[i])>>]
  PROVE  SetsOut(t, u, Len(kinds), more, InputFrames(codec, t, frames))
<1> DEFINE n == Len(kinds)
           r == InputFrames(codec, t, frames)
           e0 == Silent(t)
<1>1. ASSUME NEW k \in SetKinds, NEW v \in Nat, NEW x \in Tracks
      PROVE  InputFrame(x, <<Whole(v, k)>>) = SetTo(x, k, v)
  <2>1. Kind(<<Whole(v, k)>>) = k /\ <<Whole(v, k)>>[1].unit = v
    BY DEF Kind, Whole, Piece
  <2>2. ConfigFrame(<<Whole(v, k)>>)
    BY <2>1 DEF ConfigFrame
  <2>3. QED
    BY <2>1, <2>2, ConfigIs DEF SetTo
<1>2. ASSUME NEW v \in Nat, NEW x \in Tracks, Ready(x), ~x.told => x.extra = << >>
      PROVE  InputFrame(x, <<Whole(v, "idr")>>) = ShowsKey(x, <<Whole(v, "idr")>>)
  <2>1. KeyFrame(<<Whole(v, "idr")>>)
    BY DEF KeyFrame, Kind, Whole, Piece
  <2>2. QED
    BY <1>2, <2>1, KeyIs
<1>3. /\ e0 \in Tracks /\ e0.sets = t.sets /\ e0.told = t.told /\ e0.extra = t.extra
      /\ e0.shown = << >>
  BY SilentIs
<1>4. ASSUME NEW v \in Nat PROVE <<Whole(v, "idr")>> \in Seq(Pieces)
  <2>1. "idr" \in AllKinds
    BY DEF AllKinds, SliceKinds
  <2>2. Whole(v, "idr") \in Pieces
    BY <2>1, WholeIsPiece
  <2>3. QED
    BY <2>2
<1>5. ASSUME NEW x \in Tracks, x.told = t.told, x.extra = t.extra, x.shown = << >>, Ready(x),
             NEW v \in Nat, NEW y, y = InputFrame(x, <<Whole(v, "idr")>>)
      PROVE  /\ y \in Tracks /\ y.sets = x.sets /\ y.told = TRUE
             /\ y.extra = (IF t.told THEN t.extra ELSE Extra(y))
             /\ y.shown = << <<Whole(v, "idr")>> >>
  <2> DEFINE frame == <<Whole(v, "idr")>>
  <2>1. y = ShowsKey(x, frame)
    BY <1>2, <1>5
  <2>2. frame \in Seq(Pieces)
    BY <1>4
  <2> HIDE DEF frame
  <2>3. /\ y \in Tracks /\ y.sets = x.sets /\ y.told = TRUE
        /\ y.extra = (IF x.told THEN x.extra ELSE Extra(x))
        /\ y.shown = Append(x.shown, frame) /\ Extra(y) = Extra(x)
    BY <2>1, <2>2, ShowsKeyIs
  <2>4. Append(<< >>, frame) = <<frame>>
    BY <2>2
  <2>5. QED
    BY <1>5, <2>3, <2>4 DEF frame
<1>6. Sets(codec) \in Seq(AllKinds) /\ kinds \in Seq(AllKinds) /\ n \in Nat
  <2>1. H264Sets \in Seq(AllKinds) /\ H265Sets \in Seq(AllKinds)
    BY DEF H264Sets, H265Sets, AllKinds, SetKinds
  <2>2. <<"idr">> \in Seq(AllKinds) /\ << >> \in Seq(AllKinds)
    BY DEF AllKinds, SliceKinds
  <2>3. Sets(codec) \in Seq(AllKinds) /\ more \in Seq(AllKinds)
    BY <2>1, <2>2 DEF Sets
  <2>4. kinds \in Seq(AllKinds)
    BY <2>3
  <2>5. QED
    BY <2>3, <2>4
<1>7. ASSUME NEW i \in 1 .. n PROVE frames[i] = <<Whole(u + i, kinds[i])>>
  BY <1>7
<1>8. Len(frames) = n
  BY <1>6
<1> DEFINE m == Len(Sets(codec))
           Good(x, b) == /\ x \in Tracks /\ x.told = t.told /\ x.extra = t.extra /\ x.shown = << >>
                         /\ \A k \in SetKinds : x.sets[k] <= b
<1>9. m \in Nat /\ (m = 2 \/ m = 3) /\ \A i \in 1 .. m : Sets(codec)[i] \in SetKinds
  <2>1. Sets(codec) = H264Sets \/ Sets(codec) = H265Sets
    BY DEF Sets, Codecs
  <2>2. \A i \in 1 .. 2 : H264Sets[i] = "sps" \/ H264Sets[i] = "pps"
    BY SetsAre
  <2>3. \A i \in 1 .. 3 : H265Sets[i] = "vps" \/ H265Sets[i] = "sps" \/ H265Sets[i] = "pps"
    BY SetsAre
  <2>4. QED
    BY <2>1, <2>2, <2>3, SetsAre DEF SetKinds
<1>10. /\ n = m \/ n = m + 1
       /\ \A i \in 1 .. m : kinds[i] = Sets(codec)[i]
       /\ more = << >> => n = m
       /\ more # << >> => n = m + 1 /\ kinds[n] = "idr"
  <2>1. CASE more = << >>
    <3>1. kinds = Sets(codec)
      BY <1>6, <2>1
    <3>2. QED
      BY <2>1, <3>1
  <2>2. CASE more = <<"idr">>
    <3>1. /\ n = m + 1 /\ kinds[m + 1] = "idr" /\ \A i \in 1 .. m : kinds[i] = Sets(codec)[i]
      BY <1>6, <2>2
    <3>2. more # << >>
      BY <2>2
    <3> HIDE DEF n, m
    <3>3. QED
      BY <3>1, <3>2
  <2>3. QED
    BY <2>1, <2>2
<1> HIDE DEF n, m
<1>11. PICK e : FrameByFrame(t, frames, e)
  <2>1. n \in 0 .. 4
    BY <1>9, <1>10
  <2>2. QED
    BY <1>8, <2>1, FramesAre
<1>12. e[0] = e0 /\ r = e[n] /\ \A i \in 1 .. n : e[i] = InputFrame(e[i - 1], <<Whole(u + i, kinds[i])>>)
  BY <1>7, <1>8, <1>11 DEF FrameByFrame
<1> HIDE DEF r, e0
<1>13. Good(e[0], u)
  BY <1>3, <1>12
<1>14. ASSUME NEW i \in 1 .. m, Good(e[i - 1], u + (i - 1))
       PROVE  /\ Good(e[i], u + i)
              /\ e[i].sets = [e[i - 1].sets EXCEPT ![Sets(codec)[i]] = u + i]
  <2> DEFINE x == e[i - 1]
             k == Sets(codec)[i]
  <2>1. i \in 1 .. n /\ i \in Nat
    BY <1>9, <1>10
  <2>2. k \in SetKinds /\ kinds[i] = k /\ x \in Tracks /\ u + i \in Nat
    <3>1. Sets(codec)[i] \in SetKinds /\ kinds[i] = Sets(codec)[i]
      BY <1>9, <1>10
    <3>2. x \in Tracks
      BY <1>14
    <3>3. u + i \in Nat
      BY <2>1
    <3>4. QED
      BY <3>1, <3>2, <3>3
  <2>3. e[i] = InputFrame(x, <<Whole(u + i, k)>>)
    BY <1>12, <2>1, <2>2
  <2> HIDE DEF x, k
  <2>4. e[i] = SetTo(x, k, u + i)
    BY <1>1, <2>2, <2>3
  <2>5. /\ e[i] \in Tracks /\ e[i].sets = [x.sets EXCEPT ![k] = u + i]
        /\ e[i].told = x.told /\ e[i].extra = x.extra /\ e[i].shown = x.shown
    BY <2>2, <2>4, SetToIs
  <2>6. ASSUME NEW j \in SetKinds PROVE e[i].sets[j] <= u + i
    <3>1. x.sets \in [SetKinds -> Nat] /\ x.sets[j] \in Nat /\ x.sets[j] <= u + (i - 1)
      BY <1>14, <2>2 DEF x, Tracks
    <3>2. QED
      BY <2>1, <2>2, <2>5, <3>1
  <2>7. QED
    BY <1>14, <2>5, <2>6 DEF x, k
<1>15. Good(e[m], u + m) /\ Ready(e[m])
  <2>1. 1 \in 1 .. m /\ 2 \in 1 .. m /\ u + (1 - 1) = u /\ 1 - 1 = 0 /\ 2 - 1 = 1
    BY <1>9
  <2>2. Good(e[1], u + 1) /\ e[1].sets = [e[0].sets EXCEPT ![Sets(codec)[1]] = u + 1]
    BY <1>13, <1>14, <2>1, SMTT(30)
  <2>3. Good(e[2], u + 2) /\ e[2].sets = [e[1].sets EXCEPT ![Sets(codec)[2]] = u + 2]
    BY <1>14, <2>1, <2>2
  <2>4. e[0].sets \in [SetKinds -> Nat] /\ e[1].sets \in [SetKinds -> Nat] /\ e[2].sets \in [SetKinds -> Nat]
    BY <1>13, <2>2, <2>3 DEF Tracks
  <2>5. CASE codec = "h264"
    <3>1. m = 2 /\ Sets(codec)[1] = "sps" /\ Sets(codec)[2] = "pps"
      BY <2>5, SetsAre DEF m, Sets
    <3>2. e[1].sets["sps"] # 0 /\ e[2].sets["sps"] # 0 /\ e[2].sets["pps"] # 0
      BY <2>2, <2>3, <2>4, <3>1 DEF SetKinds
    <3>3. QED
      BY <2>3, <2>5, <3>1, <3>2 DEF Ready, H264Ready
  <2>6. CASE codec = "h265"
    <3>1. m = 3 /\ Sets(codec)[1] = "vps" /\ Sets(codec)[2] = "sps" /\ Sets(codec)[3] = "pps"
      BY <2>6, SetsAre DEF m, Sets
    <3>2. Good(e[3], u + 3) /\ e[3].sets = [e[2].sets EXCEPT ![Sets(codec)[3]] = u + 3]
      <4>1. 3 \in 1 .. m /\ 3 - 1 = 2
        BY <3>1
      <4>2. QED
        BY <1>14, <2>3, <4>1
    <3>3. e[3].sets["vps"] # 0 /\ e[3].sets["sps"] # 0 /\ e[3].sets["pps"] # 0
      BY <2>2, <2>3, <2>4, <3>1, <3>2 DEF SetKinds
    <3>4. QED
      BY <2>6, <3>1, <3>2, <3>3 DEF Ready, H265Ready
  <2>7. QED
    BY <2>5, <2>6 DEF Codecs
<1>16. CASE more = << >>
  <2>1. r = e[m] /\ n = m
    BY <1>10, <1>12, <1>16
  <2>2. QED
    BY <1>15, <1>16, <2>1 DEF r, n, SetsOut
<1>17. CASE more = <<"idr">>
  <2>0. more # << >>
    BY <1>17
  <2>1. n = m + 1 /\ kinds[n] = "idr" /\ n \in 1 .. n /\ n - 1 = m /\ u + n \in Nat
    <3>1. n = m + 1 /\ kinds[n] = "idr"
      BY <1>10, <2>0
    <3>2. n \in 1 .. n /\ n - 1 = m /\ u + n \in Nat
      BY <1>9, <3>1
    <3>3. QED
      BY <3>1, <3>2
  <2>2. r = InputFrame(e[m], <<Whole(u + n, "idr")>>)
    BY <1>12, <2>1
  <2>3. /\ r \in Tracks /\ r.sets = e[m].sets /\ r.told = TRUE
        /\ r.extra = (IF t.told THEN t.extra ELSE Extra(r))
        /\ r.shown = << <<Whole(u + n, "idr")>> >>
    <3> DEFINE x == e[m]
               v == u + n
    <3>1. x \in Tracks /\ x.told = t.told /\ x.extra = t.extra /\ x.shown = << >> /\ Ready(x)
      BY <1>15
    <3>2. v \in Nat /\ r = InputFrame(x, <<Whole(v, "idr")>>)
      BY <2>1, <2>2
    <3> HIDE DEF x, v
    <3>3. /\ r \in Tracks /\ r.sets = x.sets /\ r.told = TRUE
          /\ r.extra = (IF t.told THEN t.extra ELSE Extra(r))
          /\ r.shown = << <<Whole(v, "idr")>> >>
      BY <1>5, <3>1, <3>2
    <3>4. QED
      BY <3>3 DEF x, v
  <2>4. ASSUME NEW k \in SetKinds PROVE r.sets[k] <= u + n
    <3>1. r.sets[k] \in Nat /\ r.sets[k] <= u + m
      BY <1>15, <2>3 DEF Tracks
    <3>2. QED
      BY <1>9, <2>1, <3>1
  <2>5. QED
    BY <2>0, <2>1, <2>3, <2>4 DEF r, n, SetsOut
<1>18. QED
  BY <1>16, <1>17

-----------------------------------------------------------------------------
(* What a packet does to the track, whatever it is: the parameters stay     *)
(* told, and are told with the sets the track has then.                     *)
ShowsKeyFrame == \E i \in DOMAIN track'.shown : KeyFrame(track'.shown[i])
TrackStep ==
  /\ track' \in Tracks /\ \A k \in SetKinds : track'.sets[k] <= units'
  /\ track.told => track'.told
  /\ ~track'.told => track'.extra = << >>
  /\ track'.extra # track.extra => track'.told /\ track'.extra = Extra(track')
  /\ ShowsKeyFrame => track'.told

(* Nothing shown is no key frame and no slice.                             *)
LEMMA NoneShown ==
  ASSUME track'.shown = << >>
  PROVE  ~ShowsKeyFrame /\ ~ShowsSlice
<1>1. DOMAIN track'.shown = {}
  OBVIOUS
<1>2. QED
  BY <1>1 DEF ShowsKeyFrame, ShowsSlice

(* One frame shown is what that frame is.                                  *)
LEMMA OneShown ==
  ASSUME NEW frame, track'.shown = <<frame>>
  PROVE  /\ ShowsKeyFrame <=> KeyFrame(frame)
         /\ ShowsSlice <=> Kind(frame) \in {"idrRest", "slice"}
<1>1. DOMAIN track'.shown = {1} /\ track'.shown[1] = frame
  OBVIOUS
<1>2. QED
  BY <1>1 DEF ShowsKeyFrame, ShowsSlice

(* A call that outputs nothing keeps what the track has.                   *)
LEMMA NothingOut ==
  ASSUME PathInv, units' \in Nat, units <= units', track' = Silent(track)
  PROVE  /\ TrackStep /\ (Ready(track') <=> Ready(track)) /\ track'.shown = << >>
<1>1. /\ track \in Tracks /\ units \in Nat /\ \A k \in SetKinds : track.sets[k] <= units
      /\ ~track.told => track.extra = << >>
  BY DEF PathInv, PathType, Shown
<1>2. /\ track' \in Tracks /\ track'.sets = track.sets /\ track'.told = track.told
      /\ track'.extra = track.extra /\ track'.shown = << >> /\ (Ready(track') <=> Ready(track))
  BY <1>1, SilentIs
<1>3. ASSUME NEW k \in SetKinds PROVE track'.sets[k] <= units'
  <2>1. track.sets[k] \in Nat /\ track.sets[k] <= units
    BY <1>1 DEF Tracks
  <2>2. QED
    BY <1>1, <1>2, <2>1
<1>4. ~ShowsKeyFrame
  BY <1>2, NoneShown
<1>5. TrackStep
  BY <1>1, <1>2, <1>3, <1>4 DEF TrackStep
<1>6. QED
  BY <1>2, <1>5

(* One frame that is output reaches the application as a frame, as a kept  *)
(* parameter set, or not at all while parameter sets are missing.          *)
LEMMA OneOut ==
  ASSUME PathInv, units' \in Nat, units <= units', NEW frame \in Seq(Pieces), frame # << >>,
         frame[1].unit = units', track' = InputFrames(codec, track, <<frame>>)
  PROVE  /\ TrackStep
         /\ ~ConfigFrame(frame) => (Ready(track') <=> Ready(track))
         /\ KeyFrame(frame) /\ Ready(track) => ShowsKeyFrame
         /\ track'.shown = << >> \/ track'.shown = <<frame>>
         /\ Kind(frame) \in SliceKinds /\ ~Ready(track) => track'.shown = << >>
<1> DEFINE t == Silent(track)
<1>1. /\ track \in Tracks /\ units \in Nat /\ (\A k \in SetKinds : track.sets[k] <= units)
      /\ (~track.told => track.extra = << >>) /\ codec \in Codecs
  BY DEF PathInv, PathType, Shown
<1>2. /\ t \in Tracks /\ t.sets = track.sets /\ t.told = track.told
      /\ t.extra = track.extra /\ t.shown = << >> /\ (Ready(t) <=> Ready(track))
  BY <1>1, SilentIs
<1>3. track' = InputFrame(t, frame)
  BY OneFrame
<1> HIDE DEF t
<1>4. ASSUME NEW k \in SetKinds PROVE t.sets[k] \in Nat /\ t.sets[k] <= units'
  <2>1. track.sets[k] \in Nat /\ track.sets[k] <= units
    BY <1>1 DEF Tracks
  <2>2. QED
    BY <1>1, <1>2, <2>1
<1>5. codec \in Codecs /\ t \in Tracks /\ Append(<< >>, frame) = <<frame>>
  BY <1>1, <1>2
<1>6. CASE track' = t
  <2>1. ~ShowsKeyFrame /\ track'.shown = << >>
    BY <1>2, <1>6, NoneShown
  <2>2. TrackStep
    BY <1>1, <1>2, <1>4, <1>6, <2>1 DEF TrackStep
  <2>3. KeyFrame(frame) => ~Ready(track)
    <3> SUFFICES ASSUME KeyFrame(frame), Ready(track) PROVE FALSE
      OBVIOUS
    <3> DEFINE x == ShowsKey(t, frame)
    <3>1. track' = x
      BY <1>1, <1>2, <1>3, KeyIs
    <3>2. x.shown = Append(t.shown, frame)
      BY <1>5, ShowsKeyIs
    <3> HIDE DEF x
    <3>3. <<frame>> = << >>
      BY <1>2, <1>5, <2>1, <3>1, <3>2
    <3>4. QED
      BY <3>3
  <2>4. QED
    BY <1>2, <1>6, <2>1, <2>2, <2>3
<1>7. CASE ConfigFrame(frame)
  <2>1. Kind(frame) \in SetKinds /\ Kind(frame) \notin SliceKinds /\ ~KeyFrame(frame)
    BY <1>7 DEF ConfigFrame, SetKinds, SliceKinds, KeyFrame
  <2>2. track' = SetTo(t, Kind(frame), units')
    BY <1>2, <1>3, <1>7, ConfigIs DEF SetTo
  <2>3. /\ track' \in Tracks /\ track'.sets = [t.sets EXCEPT ![Kind(frame)] = units']
        /\ track'.told = t.told /\ track'.extra = t.extra /\ track'.shown = << >>
    BY <1>2, <2>1, <2>2, SetToIs
  <2>4. ASSUME NEW k \in SetKinds PROVE track'.sets[k] <= units'
    <3>1. t.sets \in [SetKinds -> Nat]
      BY <1>2 DEF Tracks
    <3>2. QED
      BY <1>4, <2>3, <3>1
  <2>5. ~ShowsKeyFrame
    BY <2>3, NoneShown
  <2>6. TrackStep
    BY <1>1, <1>2, <2>3, <2>4, <2>5 DEF TrackStep
  <2>7. QED
    BY <1>7, <2>1, <2>3, <2>6
<1>8. CASE KeyFrame(frame) /\ Ready(track)
  <2> DEFINE x == ShowsKey(t, frame)
  <2>1. track' = x
    BY <1>1, <1>2, <1>3, <1>8, KeyIs
  <2>2. /\ x \in Tracks /\ x.sets = t.sets /\ x.told = TRUE
        /\ x.extra = (IF t.told THEN t.extra ELSE Extra(t))
        /\ x.shown = Append(t.shown, frame)
        /\ (Ready(x) <=> Ready(t)) /\ Extra(x) = Extra(t)
    BY <1>5, ShowsKeyIs
  <2> HIDE DEF x
  <2>3. /\ track' \in Tracks /\ track'.sets = t.sets /\ track'.told = TRUE
        /\ track'.extra = (IF t.told THEN t.extra ELSE Extra(t))
        /\ track'.shown = Append(t.shown, frame)
        /\ (Ready(track') <=> Ready(t)) /\ Extra(track') = Extra(t)
    BY <2>1, <2>2
  <2>4. track'.shown = <<frame>>
    BY <1>2, <1>5, <2>3
  <2>5. ShowsKeyFrame
    BY <1>8, <2>4, OneShown
  <2>6. TrackStep
    <3>1. \A k \in SetKinds : track'.sets[k] <= units'
      BY <1>4, <2>3
    <3>2. track'.extra # track.extra => track'.extra = Extra(track')
      BY <1>2, <2>3
    <3>3. QED
      BY <2>3, <3>1, <3>2 DEF TrackStep
  <2>7. QED
    BY <1>2, <1>8, <2>3, <2>4, <2>5, <2>6
<1>9. CASE ~KeyFrame(frame) /\ track' = Shows(t, frame)
  <2>1. /\ track' \in Tracks /\ track'.sets = t.sets /\ track'.told = t.told
        /\ track'.extra = t.extra /\ track'.shown = Append(t.shown, frame)
        /\ (Ready(track') <=> Ready(t))
    BY <1>2, <1>9, ShowsIs
  <2>2. track'.shown = <<frame>>
    BY <1>2, <1>5, <2>1
  <2>3. ~ShowsKeyFrame
    BY <1>9, <2>2, OneShown
  <2>4. TrackStep
    BY <1>1, <1>2, <1>4, <2>1, <2>3 DEF TrackStep
  <2>5. Kind(frame) \in SliceKinds /\ ~Ready(track) => track'.shown = << >>
    <3> SUFFICES ASSUME Kind(frame) \in SliceKinds, ~Ready(track) PROVE track'.shown = << >>
      OBVIOUS
    <3>1. ~ConfigFrame(frame)
      BY DEF ConfigFrame, SetKinds, SliceKinds
    <3>2. track' = t
      BY <1>1, <1>2, <1>3, <1>9, <3>1, OtherIs
    <3>3. QED
      BY <1>2, <3>2
  <2>6. QED
    BY <1>2, <1>9, <2>1, <2>2, <2>4, <2>5
<1>10. ConfigFrame(frame) \/ track' = t \/ (KeyFrame(frame) /\ Ready(track))
       \/ (~KeyFrame(frame) /\ track' = Shows(t, frame))
  <2>1. ASSUME KeyFrame(frame), ~Ready(track) PROVE track' = t
    BY <1>1, <1>2, <1>3, <2>1, KeyIs
  <2>2. ASSUME ~KeyFrame(frame), ~ConfigFrame(frame) PROVE track' = t \/ track' = Shows(t, frame)
    BY <1>1, <1>2, <1>3, <2>2, OtherIs
  <2>3. QED
    BY <2>1, <2>2
<1>11. QED
  BY <1>6, <1>7, <1>8, <1>9, <1>10

(* Parameter sets of one packet, and the key frame after them, behind the  *)
(* track.                                                                  *)
LEMMA AllOut ==
  ASSUME PathInv, NEW more \in {<< >>, <<"idr">>}, NEW kinds, kinds = Sets(codec) \o more,
         units' = units + Len(kinds),
         track' = InputFrames(codec, track, [i \in 1 .. Len(kinds) |-> <<Whole(units + i, kinds[i])>>])
  PROVE  TrackStep /\ ~ShowsSlice /\ (more # << >> => ShowsKeyFrame)
<1>1. /\ track \in Tracks /\ units \in Nat /\ (\A k \in SetKinds : track.sets[k] <= units)
      /\ (~track.told => track.extra = << >>) /\ codec \in Codecs
  BY DEF PathInv, PathType, Shown
<1> DEFINE frames == [i \in 1 .. Len(kinds) |-> <<Whole(units + i, kinds[i])>>]
           last == <<Whole(units + Len(kinds), "idr")>>
<1>2. /\ track' \in Tracks /\ \A k \in SetKinds : track'.sets[k] <= units'
      /\ more = << >> => track'.told = track.told /\ track'.extra = track.extra /\ track'.shown = << >>
      /\ more # << >> =>
           /\ track'.told = TRUE /\ track'.extra = (IF track.told THEN track.extra ELSE Extra(track'))
           /\ track'.shown = <<last>>
  <2> HIDE DEF frames
  <2>1. SetsOut(track, units, Len(kinds), more, InputFrames(codec, track, frames))
    BY <1>1, AllSets DEF frames
  <2>2. SetsOut(track, units, Len(kinds), more, track')
    BY <2>1 DEF frames
  <2>3. QED
    BY <2>2 DEF SetsOut
<1>3. CASE more = << >>
  <2>1. ~ShowsKeyFrame
    BY <1>2, <1>3, NoneShown
  <2>2. ~ShowsSlice
    BY <1>2, <1>3, NoneShown
  <2>3. QED
    BY <1>1, <1>2, <1>3, <2>1, <2>2 DEF TrackStep
<1>4. CASE more = <<"idr">>
  <2>1. more # << >>
    BY <1>4
  <2>2. KeyFrame(last) /\ Kind(last) = "idr"
    BY DEF KeyFrame, Kind, Whole, Piece
  <2> HIDE DEF last
  <2>3. track'.shown = <<last>>
    BY <1>2, <2>1
  <2>4. ShowsKeyFrame
    BY <2>2, <2>3, OneShown
  <2>5. ~ShowsSlice
    BY <2>2, <2>3, OneShown
  <2>6. TrackStep
    BY <1>1, <1>2, <2>1 DEF TrackStep
  <2>7. QED
    BY <2>4, <2>5, <2>6
<1>5. QED
  BY <1>3, <1>4

-----------------------------------------------------------------------------
(* What the packets begin and end.                                         *)
LEMMA OnePiece ==
  ASSUME NEW p, NEW piece, p.pieces = <<piece>>
  PROVE  /\ \A k : Begins(p, k) <=> piece.kind = k /\ piece.no = 1
         /\ \A k : Ends(p, k) <=> piece.kind = k /\ piece.last
         /\ Ended(p, SetKinds) <=> piece.kind \in SetKinds /\ piece.last
<1>1. DOMAIN p.pieces = {1} /\ p.pieces[1] = piece
  OBVIOUS
<1>2. QED
  BY <1>1 DEF Begins, Ends, Ended

(* A unit of its own begins and ends its kind.                             *)
LEMMA OneWhole ==
  ASSUME NEW p, NEW u, NEW k, p.pieces = <<Whole(u, k)>>
  PROVE  /\ Begins(p, "idr") <=> k = "idr"
         /\ Ends(p, "idr") <=> k = "idr"
         /\ Ended(p, SetKinds) <=> k \in SetKinds
<1> DEFINE piece == Whole(u, k)
<1>1. piece.kind = k /\ piece.no = 1 /\ piece.last = TRUE
  BY DEF Whole, Piece
<1> HIDE DEF piece
<1>2. p.pieces = <<piece>>
  BY DEF piece
<1>3. QED
  BY <1>1, <1>2, OnePiece

(* A fragment begins its kind when it is the first, and ends it when it is *)
(* the last.                                                               *)
LEMMA OneFragment ==
  ASSUME NEW p, NEW u, NEW k, NEW n, NEW last \in BOOLEAN, p.pieces = <<Piece(u, k, n, last)>>
  PROVE  /\ Begins(p, "idr") <=> k = "idr" /\ n = 1
         /\ Ends(p, "idr") <=> k = "idr" /\ last
         /\ Ended(p, SetKinds) <=> k \in SetKinds /\ last
<1> DEFINE piece == Piece(u, k, n, last)
<1>1. piece.kind = k /\ piece.no = n /\ piece.last = last
  BY DEF Piece
<1> HIDE DEF piece
<1>2. p.pieces = <<piece>>
  BY DEF piece
<1>3. QED
  BY <1>1, <1>2, OnePiece

(* An empty payload begins and ends nothing.                               *)
LEMMA NoPiece ==
  ASSUME NEW p, p.pieces = << >>
  PROVE  ~Begins(p, "idr") /\ ~Ends(p, "idr") /\ ~Ended(p, SetKinds)
<1>1. DOMAIN p.pieces = {}
  OBVIOUS
<1>2. QED
  BY <1>1 DEF Begins, Ends, Ended

(* Parameter sets in one packet end such a set, and begin and end a key    *)
(* frame only when it is there.                                            *)
LEMMA ManyPieces ==
  ASSUME PathInv, NEW choice, NEW more \in {<< >>, <<"idr">>}, IsAggregate(choice, more)
  PROVE  /\ Begins(choice.packet, "idr") <=> more # << >>
         /\ Ends(choice.packet, "idr") <=> more # << >>
         /\ Ended(choice.packet, SetKinds)
<1> DEFINE kinds == Sets(codec) \o more
           n == Len(kinds)
           pieces == Units(kinds)
           p == choice.packet
<1>1. /\ n \in 2 .. 4 /\ pieces = [i \in 1 .. n |-> Whole(units + i, kinds[i])]
      /\ (\E i \in 1 .. n : kinds[i] = "idr") <=> more # << >>
  BY UnitsAre
<1>2. p.pieces = pieces
  BY DEF IsAggregate
<1>3. kinds[1] \in SetKinds
  <2>1. Sets(codec)[1] \in SetKinds
    BY KindsAre DEF PathInv, PathType
  <2>2. CASE more = << >>
    BY <2>1, <2>2 DEF Sets, H264Sets, H265Sets
  <2>3. CASE more = <<"idr">>
    BY <2>1, <2>3 DEF Sets, H264Sets, H265Sets
  <2>4. QED
    BY <2>2, <2>3
<1> HIDE DEF kinds, n, pieces, p
<1>4. DOMAIN p.pieces = 1 .. n /\ \A i \in 1 .. n : p.pieces[i].kind = kinds[i]
        /\ p.pieces[i].no = 1 /\ p.pieces[i].last = TRUE
  <2>1. ASSUME NEW i \in 1 .. n
        PROVE  p.pieces[i].kind = kinds[i] /\ p.pieces[i].no = 1 /\ p.pieces[i].last = TRUE
    <3>1. p.pieces[i] = Whole(units + i, kinds[i])
      BY <1>1, <1>2
    <3>2. QED
      BY <3>1 DEF Whole, Piece
  <2>2. DOMAIN p.pieces = 1 .. n
    BY <1>1, <1>2
  <2>3. QED
    BY <2>1, <2>2
<1>5. 1 \in 1 .. n
  BY <1>1
<1>6. Ends(p, kinds[1])
  BY <1>4, <1>5 DEF Ends
<1>7. Ended(p, SetKinds)
  BY <1>3, <1>6 DEF Ended
<1>8. QED
  BY <1>1, <1>4, <1>7 DEF Begins, Ends, p

-----------------------------------------------------------------------------
(* The invariant, step by step.  First what the sender and the losses do,  *)
(* whatever the packet is.                                                 *)
LEMMA SendIs ==
  ASSUME NEW choice, NEW lost \in BOOLEAN, Send(choice, lost)
  PROVE  /\ sent < LastPacket /\ (lost => missed < MaxLoss) /\ sent' = sent + 1
         /\ units' = choice.units /\ cutting' = choice.cutting /\ codec' = codec
         /\ leading' = (~Begins(choice.packet, "idr") /\ (leading \/ Ended(choice.packet, SetKinds)))
         /\ missed' = (IF lost THEN missed + 1 ELSE 0)
         /\ torn' = (lost \/ choice.packet.structure \in {"unsupported", "cut"}
                          \/ (torn /\ ~Begins(choice.packet, "idr")))
         /\ unseen' = ((lost /\ decoder.last = 0) \/ (unseen /\ ~Begins(choice.packet, "idr")))
         /\ shunned' = (IF Ends(choice.packet, "idr") /\ ~lost THEN missed # 0 ELSE shunned)
         /\ keyShown' = ((keyShown /\ ~Begins(choice.packet, "idr")) \/ ShowsKeyFrame)
         /\ lost => track' = Silent(track) /\ decoder' = Begun
         /\ ~lost => track' = InputFrames(codec, track, decoder'.frames)
  BY DEF Send, ShowsKeyFrame, Silent, Begun, lostBefore

(* The sender goes on with the unit it cuts, and cuts no slice while a key *)
(* frame must come first.                                                  *)
LEMMA CuttingKept ==
  ASSUME PathInv, NEW choice \in Choices, NEW lost \in BOOLEAN, Send(choice, lost)
  PROVE  units' \in Nat /\ units <= units' /\ Cutting'
<1> DEFINE p == choice.packet
<1>1. /\ units' = choice.units /\ cutting' = choice.cutting
      /\ leading' = (~Begins(p, "idr") /\ (leading \/ Ended(p, SetKinds)))
  BY SendIs
<1>2. units \in Nat /\ codec \in Codecs /\ Cutting
  BY DEF PathInv, PathType
<1> HIDE DEF p
<1>3. ASSUME NEW k, IsSingle(choice, k) PROVE units' \in Nat /\ units <= units' /\ Cutting'
  BY <1>1, <1>2, <1>3 DEF IsSingle, Cutting
<1>4. ASSUME NEW more \in {<< >>, <<"idr">>}, IsAggregate(choice, more)
      PROVE units' \in Nat /\ units <= units' /\ Cutting'
  <2> DEFINE n == Len(Sets(codec) \o more)
  <2>1. n \in 2 .. 4
    BY UnitsAre
  <2>2. units' = units + n /\ cutting' = NoUnit
    BY <1>1, <1>4 DEF IsAggregate
  <2> HIDE DEF n
  <2>3. QED
    BY <1>2, <2>1, <2>2 DEF Cutting
<1>5. ASSUME NEW k, IsFirst(choice, k) PROVE units' \in Nat /\ units <= units' /\ Cutting'
  <2>1. /\ k \in MayStart /\ units' = units + 1 /\ cutting' = Piece(units + 1, k, 1, FALSE)
        /\ p.pieces = <<Piece(units + 1, k, 1, FALSE)>>
    BY <1>1, <1>5 DEF IsFirst, p
  <2>2. k \in Kinds /\ (leading /\ k \in SliceKinds => k = "idr")
    BY <1>2, <2>1, KindsAre DEF MayStart, SliceKinds
  <2>3. (Begins(p, "idr") <=> k = "idr") /\ ~Ended(p, SetKinds)
    <3> DEFINE piece == Piece(units + 1, k, 1, FALSE)
    <3>1. piece.kind = k /\ piece.no = 1 /\ piece.last = FALSE /\ p.pieces = <<piece>>
      BY <2>1 DEF Piece
    <3> HIDE DEF piece
    <3>2. QED
      BY <3>1, OnePiece
  <2>4. k \in SliceKinds => ~leading'
    BY <1>1, <2>2, <2>3
  <2>5. cutting'.kind = k /\ cutting'.no = 1
    BY <2>1 DEF Piece
  <2>6. 1 \in 1 .. MaxPieces - 1
    BY PathAssumption
  <2>7. cutting' = Piece(units', cutting'.kind, cutting'.no, FALSE)
    BY <2>1, <2>5
  <2>8. units' \in Nat /\ units <= units' /\ units' # 0
    BY <1>2, <2>1
  <2>9. cutting'.kind \in Kinds /\ cutting'.no \in 1 .. MaxPieces - 1
        /\ (cutting'.kind \in SliceKinds => ~leading')
    BY <2>2, <2>4, <2>5, <2>6
  <2>10. Cutting'
    BY <2>7, <2>8, <2>9, Zenon DEF Cutting
  <2>11. QED
    BY <2>8, <2>10
<1>6. ASSUME NEW last, IsNext(choice, last) PROVE units' \in Nat /\ units <= units' /\ Cutting'
  <2> DEFINE n == cutting.no + 1
             piece == Piece(units, cutting.kind, n, last)
  <2>1. /\ cutting = Piece(units, cutting.kind, cutting.no, FALSE)
        /\ cutting.no \in 1 .. MaxPieces - 1 /\ cutting.kind \in Kinds
        /\ units # 0 /\ (cutting.kind \in SliceKinds => ~leading)
    BY <1>2, <1>6 DEF Cutting, IsNext
  <2>2. cutting.unit = units
    BY <2>1 DEF Piece
  <2>3. /\ last \in BOOLEAN /\ (last \/ n < MaxPieces) /\ p.pieces = <<piece>>
        /\ units' = units /\ cutting' = IF last THEN NoUnit ELSE piece
    BY <1>1, <1>6, <2>2 DEF IsNext, p
  <2>4. CASE last
    BY <1>2, <2>3, <2>4 DEF Cutting
  <2>5. CASE ~last
    <3>1. last = FALSE /\ n < MaxPieces /\ cutting' = piece
      BY <2>3, <2>5
    <3>2. cutting'.kind = cutting.kind /\ cutting'.no = n
      BY <3>1 DEF Piece
    <3>3. n \in 1 .. MaxPieces - 1 /\ n # 1
      BY <2>1, <3>1, PathAssumption
    <3>4. ~Ended(p, SetKinds) /\ ~Begins(p, "idr")
      <4> HIDE DEF n
      <4>1. QED
        BY <2>3, <2>5, <3>3, OneFragment
    <3>5. cutting'.kind \in SliceKinds => ~leading'
      BY <1>1, <2>1, <3>2, <3>4
    <3>6. cutting' = Piece(units', cutting'.kind, cutting'.no, FALSE)
      BY <2>3, <3>1, <3>2
    <3>7. units' # 0 /\ cutting'.kind \in Kinds /\ cutting'.no \in 1 .. MaxPieces - 1
      BY <2>1, <2>3, <3>2, <3>3
    <3>8. Cutting'
      BY <3>5, <3>6, <3>7, Zenon DEF Cutting
    <3>9. QED
      BY <1>2, <2>3, <3>8
  <2>6. QED
    BY <2>3, <2>4, <2>5
<1>7. ASSUME IsCut(choice) \/ IsUseless(choice) PROVE units' \in Nat /\ units <= units' /\ Cutting'
  <2>1. cutting' = NoUnit /\ (units' = units \/ units' = units + 1)
    BY <1>1, <1>7 DEF IsCut, IsUseless
  <2>2. QED
    BY <1>2, <2>1 DEF Cutting
<1>8. QED
  BY <1>2, <1>3, <1>4, <1>5, <1>6, <1>7, ChoiceIs

(* The parts that do not depend on what the packet is.                     *)
Common ==
  /\ PathType /\ Position /\ Cutting
  /\ missed # 0 \/ unseen => torn
  /\ missed # 0 /\ decoder.last = 0 => unseen
  /\ keyShown => track.told
  /\ ~track.told => track.extra = << >>

(* The parts of the invariant that do not depend on what the packet is are *)
(* kept.                                                                   *)
LEMMA CommonKept ==
  ASSUME PathInv, NEW choice \in Choices, NEW lost \in BOOLEAN, Send(choice, lost), TrackStep,
         decoder' \in Decoders, decoder'.last = (IF lost THEN decoder.last ELSE Seq1),
         lost => decoder'.fu = decoder.fu
  PROVE  Common'
<1> DEFINE idr == Begins(choice.packet, "idr")
           sets == Ended(choice.packet, SetKinds)
           odd == choice.packet.structure \in {"unsupported", "cut"}
           ends == Ends(choice.packet, "idr")
<1>1. /\ sent < LastPacket /\ (lost => missed < MaxLoss) /\ sent' = sent + 1 /\ codec' = codec
      /\ leading' = (~idr /\ (leading \/ sets))
      /\ missed' = (IF lost THEN missed + 1 ELSE 0)
      /\ torn' = (lost \/ odd \/ (torn /\ ~idr))
      /\ unseen' = ((lost /\ decoder.last = 0) \/ (unseen /\ ~idr))
      /\ shunned' = (IF ends /\ ~lost THEN missed # 0 ELSE shunned)
      /\ keyShown' = ((keyShown /\ ~idr) \/ ShowsKeyFrame)
  BY SendIs
<1>2. idr \in BOOLEAN /\ sets \in BOOLEAN /\ odd \in BOOLEAN /\ ends \in BOOLEAN
      /\ ShowsKeyFrame \in BOOLEAN
  BY DEF Begins, Ended, Ends, ShowsKeyFrame
<1> HIDE DEF idr, sets, odd, ends
<1>3. /\ codec \in Codecs /\ sent \in 0 .. LastPacket /\ missed \in 0 .. MaxLoss
      /\ leading \in BOOLEAN /\ torn \in BOOLEAN /\ unseen \in BOOLEAN /\ shunned \in BOOLEAN
      /\ keyShown \in BOOLEAN /\ decoder.last \in 0 .. SeqMod - 1
  BY DEF PathInv, PathType, Decoders
<1>4. units' \in Nat /\ Cutting'
  BY CuttingKept
<1>5. sent' \in 0 .. LastPacket /\ missed' \in 0 .. MaxLoss
  BY <1>1, <1>3, PathAssumption
<1>6. {leading', torn', unseen', shunned', keyShown'} \subseteq BOOLEAN
  <2>1. leading' \in BOOLEAN
    BY <1>1
  <2>2. torn' \in BOOLEAN /\ unseen' \in BOOLEAN
    BY <1>1
  <2>3. shunned' \in BOOLEAN
    BY <1>1, <1>3
  <2>4. keyShown' \in BOOLEAN
    BY <1>1
  <2>5. QED
    BY <2>1, <2>2, <2>3, <2>4
<1>7. PathType'
  BY <1>1, <1>3, <1>4, <1>5, <1>6 DEF PathType, TrackStep
<1>8. Position'
  <2>1. Position
    BY DEF PathInv
  <2>2. CASE lost
    <3>1. missed' = missed + 1 /\ decoder'.last = decoder.last /\ decoder'.fu = decoder.fu
          /\ sent' - missed' = sent - missed
      BY <1>1, <1>3, <2>2, PathAssumption
    <3>2. (missed' = sent' <=> missed = sent) /\ (missed' < sent' <=> missed < sent)
          /\ (missed' <= sent' <=> missed <= sent)
      BY <1>1, <1>3, <3>1, PathAssumption
    <3>3. QED
      BY <2>1, <3>1, <3>2 DEF Position
  <2>3. CASE ~lost
    <3>1. missed' = 0 /\ decoder'.last = Seq1 /\ sent' # 0 /\ sent' \in Nat /\ sent' - 0 = sent + 1
      BY <1>1, <1>3, <2>3, PathAssumption
    <3>2. QED
      BY <3>1 DEF Position, Seq1
  <2>4. QED
    BY <2>2, <2>3
<1>9. missed' # 0 \/ unseen' => torn'
  <2>1. missed # 0 \/ unseen => torn
    BY DEF PathInv, Losses
  <2>2. QED
    BY <1>1, <1>3, <2>1
<1>10. missed' # 0 /\ decoder'.last = 0 => unseen'
  BY <1>1, <1>3
<1>11. keyShown' => track'.told
  <2>1. keyShown => track.told
    BY DEF PathInv, Shown
  <2>2. QED
    BY <1>1, <1>3, <2>1 DEF TrackStep
<1>12. ~track'.told => track'.extra = << >>
  BY DEF TrackStep
<1>13. QED
  BY <1>4, <1>7, <1>8, <1>9, <1>10, <1>11, <1>12 DEF Common

(* The rest of the invariant, and what must be true of what is output.     *)
Rest ==
  /\ Collected /\ Merging
  /\ torn /\ ~unseen /\ missed = 0 => decoder.gop
  /\ ~torn /\ ~shunned /\ cutting.kind # "idr" => ~decoder.gop
  /\ ~torn /\ cutting.kind = "idr" => ~decoder.fu
  /\ ~decoder.fu /\ missed = 0 /\ cutting.kind = "idr" => ~torn
  /\ Ready(track) /\ ~leading /\ ~torn /\ cutting.kind # "idr" => keyShown

SlicesAllowed ==
  /\ OutputsSlice => ~torn' \/ unseen' \/ lostBefore
  /\ ShowsSlice => (track'.told /\ keyShown') \/ unseen' \/ lostBefore

(* The invariant is what is common to all packets and the rest.            *)
LEMMA Parts ==
  PathInv <=> Common /\ Rest
  BY DEF PathInv, Common, Rest, Losses, Shown

(* The codec of a stream does not change.                                  *)
LEMMA ReadyNext ==
  ASSUME codec' = codec
  PROVE  Ready(track)' <=> Ready(track')
  BY DEF Ready, H264Ready, H265Ready

(* No unit comes out, or one does.                                         *)
LEMMA SilentOut ==
  ASSUME PathInv, units' \in Nat, units <= units', decoder'.frames = << >>,
         track' = Silent(track) \/ track' = InputFrames(codec, track, decoder'.frames)
  PROVE  /\ TrackStep /\ (Ready(track') <=> Ready(track))
         /\ ~ShowsKeyFrame /\ ~ShowsSlice /\ ~OutputsSlice /\ NoTornFrame'
<1>1. track' = Silent(track)
  BY NoFrame
<1>2. TrackStep /\ (Ready(track') <=> Ready(track)) /\ track'.shown = << >>
  BY <1>1, NothingOut
<1>3. DOMAIN decoder'.frames = {}
  OBVIOUS
<1>4. QED
  BY <1>2, <1>3, NoneShown DEF OutputsSlice, NoTornFrame

(* A sequence of one element.                                              *)
LEMMA OneOf ==
  ASSUME NEW s, NEW x, s = <<x>>
  PROVE  DOMAIN s = {1} /\ s[1] = x
  OBVIOUS

(* One unit comes out, or is left out while its group of pictures is       *)
(* dropped.                                                                *)
LEMMA UnitOut ==
  ASSUME PathInv, units' \in Nat, units <= units', NEW frame \in Seq(Pieces), frame # << >>,
         frame[1].unit = units', NEW out \in BOOLEAN, IsWhole(frame),
         decoder'.frames = IF out THEN <<frame>> ELSE << >>,
         track' = InputFrames(codec, track, decoder'.frames)
  PROVE  /\ TrackStep /\ NoTornFrame'
         /\ ~ConfigFrame(frame) => (Ready(track') <=> Ready(track))
         /\ out /\ KeyFrame(frame) /\ Ready(track) => ShowsKeyFrame
         /\ ShowsSlice => out /\ Kind(frame) \in {"idrRest", "slice"} /\ Ready(track)
         /\ OutputsSlice => out /\ Kind(frame) \in {"idrRest", "slice"}
<1>1. CASE ~out
  <2>1. decoder'.frames = << >>
    BY <1>1
  <2>2. QED
    BY <1>1, <2>1, SilentOut
<1>2. CASE out
  <2>1. decoder'.frames = <<frame>>
    BY <1>2
  <2>2. DOMAIN decoder'.frames = {1} /\ decoder'.frames[1] = frame
    BY <2>1, OneOf
  <2>3. NoTornFrame' /\ (OutputsSlice => Kind(frame) \in {"idrRest", "slice"})
    BY <2>2 DEF NoTornFrame, OutputsSlice, IsWhole
  <2>4. track' = InputFrames(codec, track, <<frame>>)
    BY <2>1
  <2>5. /\ TrackStep
        /\ ~ConfigFrame(frame) => (Ready(track') <=> Ready(track))
        /\ KeyFrame(frame) /\ Ready(track) => ShowsKeyFrame
        /\ track'.shown = << >> \/ track'.shown = <<frame>>
        /\ Kind(frame) \in SliceKinds /\ ~Ready(track) => track'.shown = << >>
    BY <2>4, OneOut
  <2>6. ShowsSlice => Kind(frame) \in {"idrRest", "slice"} /\ track'.shown # << >>
    BY <2>5, NoneShown, OneShown
  <2>7. ShowsSlice => Ready(track)
    BY <2>5, <2>6 DEF SliceKinds
  <2>8. QED
    BY <1>2, <2>3, <2>5, <2>6, <2>7
<1>3. QED
  BY <1>1, <1>2

(* A slice that comes out of a decoder that does not drop.                  *)
LEMMA SliceIsAllowed ==
  ASSUME PathInv, NEW choice, Send(choice, FALSE), TrackStep,
         ~Begins(choice.packet, "idr"), choice.packet.structure \notin {"unsupported", "cut"},
         cutting.kind # "idr",
         OutputsSlice => ~decoder.gop,
         ShowsSlice => ~decoder.gop /\ ~leading /\ Ready(track)
  PROVE  SlicesAllowed
<1>1. /\ torn' = (torn \/ FALSE) /\ unseen' = (unseen \/ FALSE)
      /\ keyShown' = (keyShown \/ ShowsKeyFrame)
  <2>1. FALSE \in BOOLEAN
    OBVIOUS
  <2>2. torn \in BOOLEAN /\ unseen \in BOOLEAN
    BY DEF PathInv, PathType
  <2>3. QED
    BY <2>1, <2>2, SendIs
<1>2. /\ torn /\ ~unseen /\ missed = 0 => decoder.gop
      /\ Ready(track) /\ ~leading /\ ~torn /\ cutting.kind # "idr" => keyShown
      /\ keyShown => track.told
  BY DEF PathInv, Losses, Shown
<1>3. OutputsSlice => ~torn' \/ unseen' \/ lostBefore
  BY <1>1, <1>2 DEF lostBefore
<1>4. ShowsSlice => (track'.told /\ keyShown') \/ unseen' \/ lostBefore
  BY <1>1, <1>2 DEF lostBefore, TrackStep
<1>5. QED
  BY <1>3, <1>4 DEF SlicesAllowed

(* No unit is being cut: then no key frame is.                             *)
LEMMA NotCutting ==
  NoUnit.kind = "none" /\ "none" # "idr"
  BY DEF NoUnit, Piece

(* A unit that is not cut is a whole frame.                                *)
LEMMA WholeIsWhole ==
  ASSUME NEW u, NEW k
  PROVE  IsWhole(<<Whole(u, k)>>) /\ Kind(<<Whole(u, k)>>) = k
<1> DEFINE piece == Whole(u, k)
           frame == <<piece>>
<1>1. piece.kind = k /\ piece.no = 1 /\ piece.last = TRUE
  BY DEF Whole, Piece
<1> HIDE DEF piece
<1>2. DOMAIN frame = {1} /\ frame[1] = piece /\ Len(frame) = 1
  OBVIOUS
<1> HIDE DEF frame
<1>3. IsWhole(frame) /\ Kind(frame) = k
  BY <1>1, <1>2 DEF IsWhole, Kind
<1>4. QED
  BY <1>3 DEF frame, piece

(* One lemma for each kind of packet that arrives.                         *)
Kept == Common' /\ Rest' /\ TrackStep /\ NoTornFrame' /\ SlicesAllowed

(* A unit in a packet of its own.                                          *)
LEMMA SingleKeeps ==
  ASSUME PathInv, NEW choice \in Choices, NEW k, IsSingle(choice, k), Send(choice, FALSE)
  PROVE  Kept
<1> DEFINE p == choice.packet
           frame == <<Whole(units + 1, k)>>
           out == ~decoder.gop \/ k = "idr" \/ k \in SetKinds
<1>1. /\ Gives(decoder.gop /\ k # "idr", decoder.fu, << >>, IF out THEN <<frame>> ELSE << >>)
      /\ codec \in Codecs /\ units \in Nat /\ Cutting /\ out \in BOOLEAN
  BY SingleGives DEF PathInv, PathType
<1>2. /\ cutting = NoUnit /\ choice.cutting = NoUnit /\ choice.units = units + 1
      /\ p.structure = "single" /\ p.pieces = <<Whole(units + 1, k)>>
      /\ k \in AllKinds /\ (leading /\ k \in SliceKinds => k = "idr")
  <2>1. k \in MayStart \union SetsOf(codec)
    BY DEF IsSingle
  <2>2. k \in AllKinds
    BY <1>1, <2>1, KindsAre DEF AllKinds
  <2>3. k \in SetsOf(codec) => k \notin SliceKinds
    BY <1>1, KindsAre DEF SetKinds, SliceKinds
  <2>4. leading /\ k \in SliceKinds => k = "idr"
    BY <2>1, <2>3 DEF MayStart, SliceKinds
  <2>5. QED
    BY <2>2, <2>4 DEF IsSingle
<1>3. /\ Begins(p, "idr") <=> k = "idr"
      /\ Ends(p, "idr") <=> k = "idr"
      /\ Ended(p, SetKinds) <=> k \in SetKinds
  BY <1>2, OneWhole
<1>4. /\ units' = units + 1 /\ cutting' = NoUnit /\ codec' = codec
      /\ leading' = (~Begins(p, "idr") /\ (leading \/ Ended(p, SetKinds)))
      /\ missed' = 0 /\ torn' = (torn /\ k # "idr")
      /\ unseen' = (unseen /\ k # "idr")
      /\ shunned' = (IF k = "idr" THEN missed # 0 ELSE shunned)
      /\ keyShown' = ((keyShown /\ k # "idr") \/ ShowsKeyFrame)
      /\ track' = InputFrames(codec, track, decoder'.frames)
  <2>1. torn \in BOOLEAN /\ unseen \in BOOLEAN /\ keyShown \in BOOLEAN
    BY DEF PathInv, PathType
  <2>2. FALSE \in BOOLEAN /\ p.structure \notin {"unsupported", "cut"}
    BY <1>2
  <2>3. QED
    BY <1>2, <1>3, <2>1, <2>2, SendIs
<1>5. frame \in Seq(Pieces) /\ frame # << >> /\ frame[1].unit = units' /\ IsWhole(frame) /\ Kind(frame) = k
  <2>1. Whole(units + 1, k) \in Pieces /\ Whole(units + 1, k).unit = units + 1
    <3>1. units + 1 \in Nat /\ k \in AllKinds
      BY <1>1, <1>2
    <3>2. QED
      BY <3>1, WholeIsPiece
  <2>2. IsWhole(frame) /\ Kind(frame) = k
    BY WholeIsWhole
  <2>3. QED
    BY <1>4, <2>1, <2>2
<1> HIDE DEF p, frame, out
<1>6. units' \in Nat /\ units <= units'
  BY <1>1, <1>4
<1>7. /\ decoder' \in Decoders /\ decoder'.gop = ((decoder.gop /\ k # "idr") \/ Gap)
      /\ decoder'.fu = decoder.fu /\ decoder'.last = Seq1 /\ decoder'.buffer = << >>
      /\ decoder'.frames = IF out THEN <<frame>> ELSE << >>
  BY <1>1 DEF Gives
<1>8. /\ TrackStep /\ NoTornFrame'
      /\ k \notin SetKinds => (Ready(track') <=> Ready(track))
      /\ k = "idr" /\ Ready(track) => ShowsKeyFrame
      /\ ShowsSlice => out /\ k \in {"idrRest", "slice"} /\ Ready(track)
      /\ OutputsSlice => out /\ k \in {"idrRest", "slice"}
  <2>1. /\ TrackStep /\ NoTornFrame'
        /\ ~ConfigFrame(frame) => (Ready(track') <=> Ready(track))
        /\ out /\ KeyFrame(frame) /\ Ready(track) => ShowsKeyFrame
        /\ ShowsSlice => out /\ Kind(frame) \in {"idrRest", "slice"} /\ Ready(track)
        /\ OutputsSlice => out /\ Kind(frame) \in {"idrRest", "slice"}
    BY <1>1, <1>4, <1>5, <1>6, <1>7, UnitOut
  <2>2. (ConfigFrame(frame) <=> k \in SetKinds) /\ (KeyFrame(frame) <=> k = "idr") /\ (k = "idr" => out)
    BY <1>5 DEF ConfigFrame, KeyFrame, out
  <2>3. QED
    BY <1>5, <2>1, <2>2
<1>9. Common'
  BY <1>7, <1>8, CommonKept
<1>10. Rest'
  <2>1. /\ missed # 0 \/ unseen => torn
        /\ missed # 0 /\ decoder.last = 0 => unseen
        /\ torn /\ ~unseen /\ missed = 0 => decoder.gop
        /\ ~torn /\ ~shunned => ~decoder.gop
        /\ Ready(track) /\ ~leading /\ ~torn => keyShown
    BY <1>2, NotCutting DEF PathInv, Losses, Shown
  <2>2. torn \in BOOLEAN /\ unseen \in BOOLEAN /\ keyShown \in BOOLEAN /\ shunned \in BOOLEAN
        /\ leading \in BOOLEAN /\ decoder.gop \in BOOLEAN
    BY DEF PathInv, PathType, Decoders
  <2>3. Collected' /\ Merging'
    BY <1>4, <1>7 DEF Collected, Merging
  <2>4. torn' /\ ~unseen' /\ missed' = 0 => decoder'.gop
    BY <1>4, <1>7, <2>1 DEF Gap
  <2>5. ~torn' /\ ~shunned' => ~decoder'.gop
    BY <1>4, <1>7, <2>1 DEF Gap
  <2>6. cutting'.kind # "idr"
    BY <1>4, NotCutting
  <2>7. Ready(track)' /\ ~leading' /\ ~torn' => keyShown'
    <3>1. Ready(track)' <=> Ready(track')
      BY <1>4, ReadyNext
    <3>2. CASE k = "idr"
      BY <1>4, <1>8, <3>1, <3>2 DEF SetKinds
    <3>3. CASE k \in SetKinds
      BY <1>3, <1>4, <3>3 DEF SetKinds
    <3>4. CASE k # "idr" /\ k \notin SetKinds
      BY <1>3, <1>4, <1>8, <2>1, <2>2, <3>1, <3>4
    <3>5. QED
      BY <3>2, <3>3, <3>4
  <2>8. QED
    BY <2>3, <2>4, <2>5, <2>6, <2>7 DEF Rest
<1>11. SlicesAllowed
  <2>1. CASE k = "idr" \/ k \in SetKinds
    <3>1. k \notin {"idrRest", "slice"}
      BY <2>1 DEF SetKinds
    <3>2. QED
      BY <1>8, <3>1 DEF SlicesAllowed
  <2>2. CASE ~(k = "idr" \/ k \in SetKinds)
    <3>1. ~Begins(p, "idr") /\ p.structure \notin {"unsupported", "cut"} /\ cutting.kind # "idr"
      BY <1>2, <1>3, <2>2, NotCutting
    <3>2. out => ~decoder.gop
      BY <2>2 DEF out
    <3>3. k \in {"idrRest", "slice"} => ~leading
      BY <1>2 DEF SliceKinds
    <3>4. QED
      BY <1>8, <3>1, <3>2, <3>3, SliceIsAllowed DEF p
  <2>3. QED
    BY <2>1, <2>2
<1>12. QED
  BY <1>8, <1>9, <1>10, <1>11 DEF Kept

(* Parameter sets in one packet, alone or with a key frame.                *)
LEMMA AggregateKeeps ==
  ASSUME PathInv, NEW choice \in Choices, NEW more \in {<< >>, <<"idr">>}, IsAggregate(choice, more),
         Send(choice, FALSE)
  PROVE  Kept
<1> DEFINE p == choice.packet
           kinds == Sets(codec) \o more
           n == Len(kinds)
           frames == [i \in 1 .. n |-> <<Whole(units + i, kinds[i])>>]
           idr == more # << >>
<1>1. Gives(decoder.gop /\ ~idr, decoder.fu, << >>, frames)
  <2>1. (decoder.gop /\ ~idr) = (decoder.gop /\ more = << >>)
    OBVIOUS
  <2>2. QED
    BY <2>1, AggregateGives
<1>2. /\ n \in 2 .. 4 /\ codec \in Codecs /\ units \in Nat
      /\ \A i \in 1 .. n : kinds[i] \in SetKinds \union {"idr"}
  BY UnitsAre DEF PathInv, PathType
<1>3. /\ cutting = NoUnit /\ choice.cutting = NoUnit /\ choice.units = units + n
      /\ p.structure = "aggregate"
  BY DEF IsAggregate
<1>4. (Begins(p, "idr") <=> idr) /\ (Ends(p, "idr") <=> idr) /\ Ended(p, SetKinds)
  BY ManyPieces
<1> HIDE DEF idr, n
<1>5. /\ units' = units + n /\ cutting' = NoUnit /\ codec' = codec
      /\ leading' = ~idr /\ missed' = 0 /\ torn' = (torn /\ ~idr)
      /\ unseen' = (unseen /\ ~idr)
      /\ shunned' = (IF idr THEN missed # 0 ELSE shunned)
      /\ keyShown' = ((keyShown /\ ~idr) \/ ShowsKeyFrame)
      /\ track' = InputFrames(codec, track, decoder'.frames)
  <2>1. torn \in BOOLEAN /\ unseen \in BOOLEAN /\ keyShown \in BOOLEAN /\ idr \in BOOLEAN
    BY DEF PathInv, PathType, idr
  <2>2. FALSE \in BOOLEAN /\ p.structure \notin {"unsupported", "cut"}
    BY <1>3
  <2>3. QED
    BY <1>3, <1>4, <2>1, <2>2, SendIs
<1> HIDE DEF p, frames
<1>6. /\ decoder' \in Decoders /\ decoder'.gop = ((decoder.gop /\ ~idr) \/ Gap)
      /\ decoder'.fu = decoder.fu /\ decoder'.last = Seq1 /\ decoder'.buffer = << >>
      /\ decoder'.frames = frames
  BY <1>1 DEF Gives
<1>7. TrackStep /\ ~ShowsSlice /\ (idr => ShowsKeyFrame)
  <2>1. track' = InputFrames(codec, track, frames)
    BY <1>5, <1>6
  <2>2. QED
    BY <1>5, <2>1, AllOut DEF frames, idr, n
<1>8. NoTornFrame' /\ ~OutputsSlice
  <2>1. DOMAIN decoder'.frames = 1 .. n
    BY <1>6 DEF frames, n
  <2>2. ASSUME NEW i \in 1 .. n
        PROVE  IsWhole(decoder'.frames[i]) /\ Kind(decoder'.frames[i]) \notin {"idrRest", "slice"}
    <3>1. decoder'.frames[i] = <<Whole(units + i, kinds[i])>>
      BY <1>6 DEF frames, n
    <3>2. kinds[i] \notin {"idrRest", "slice"}
      BY <1>2 DEF SetKinds
    <3> HIDE DEF kinds
    <3>3. QED
      BY <3>1, <3>2, WholeIsWhole
  <2>3. QED
    BY <2>1, <2>2 DEF NoTornFrame, OutputsSlice
<1>9. Common'
  BY <1>6, <1>7, CommonKept
<1>10. Rest'
  <2>1. /\ missed # 0 \/ unseen => torn
        /\ missed # 0 /\ decoder.last = 0 => unseen
        /\ torn /\ ~unseen /\ missed = 0 => decoder.gop
        /\ ~torn /\ ~shunned => ~decoder.gop
    BY <1>3, NotCutting DEF PathInv, Losses
  <2>2. Collected' /\ Merging'
    BY <1>5, <1>6 DEF Collected, Merging
  <2>3. torn' /\ ~unseen' /\ missed' = 0 => decoder'.gop
    BY <1>5, <1>6, <2>1 DEF Gap
  <2>4. ~torn' /\ ~shunned' => ~decoder'.gop
    BY <1>5, <1>6, <2>1 DEF Gap
  <2>5. cutting'.kind # "idr"
    BY <1>5, NotCutting
  <2>6. ~leading' => keyShown'
    BY <1>5, <1>7
  <2>7. QED
    BY <2>2, <2>3, <2>4, <2>5, <2>6 DEF Rest
<1>11. QED
  BY <1>7, <1>8, <1>9, <1>10 DEF Kept, SlicesAllowed

(* The first fragment of a unit.                                           *)
LEMMA FirstKeeps ==
  ASSUME PathInv, NEW choice \in Choices, NEW k, IsFirst(choice, k), Send(choice, FALSE)
  PROVE  Kept
<1> DEFINE p == choice.packet
           piece == Piece(units + 1, k, 1, FALSE)
<1>1. Gives(decoder.gop, FALSE, Begin(units + 1, k, 1), << >>)
  BY FirstGives
<1>2. /\ cutting = NoUnit /\ choice.cutting = piece /\ choice.units = units + 1
      /\ p.structure = "fragment" /\ p.pieces = <<piece>>
      /\ k \in Kinds /\ k \notin SetKinds /\ units \in Nat
  BY KindsAre DEF IsFirst, PathInv, PathType, SliceKinds, OtherKinds, SetKinds
<1>3. piece.kind = k /\ piece.no = 1 /\ piece.last = FALSE /\ piece.unit = units + 1
  BY DEF Piece
<1> HIDE DEF piece
<1>4. (Begins(p, "idr") <=> k = "idr") /\ ~Ends(p, "idr") /\ ~Ended(p, SetKinds)
  BY <1>2, <1>3, OnePiece
<1>5. /\ units' = units + 1 /\ cutting' = piece /\ codec' = codec
      /\ leading' = (k # "idr" /\ leading) /\ missed' = 0 /\ torn' = (torn /\ k # "idr")
      /\ unseen' = (unseen /\ k # "idr") /\ shunned' = shunned
      /\ keyShown' = ((keyShown /\ k # "idr") \/ ShowsKeyFrame)
      /\ track' = InputFrames(codec, track, decoder'.frames)
  <2>1. torn \in BOOLEAN /\ unseen \in BOOLEAN /\ keyShown \in BOOLEAN /\ leading \in BOOLEAN
    BY DEF PathInv, PathType
  <2>2. FALSE \in BOOLEAN /\ p.structure \notin {"unsupported", "cut"}
    BY <1>2
  <2>3. QED
    BY <1>2, <1>4, <2>1, <2>2, SendIs
<1> HIDE DEF p
<1>6. /\ decoder' \in Decoders /\ decoder'.gop = (decoder.gop \/ Gap)
      /\ decoder'.fu = FALSE /\ decoder'.last = Seq1 /\ decoder'.buffer = Begin(units + 1, k, 1)
      /\ decoder'.frames = << >>
  BY <1>1 DEF Gives
<1>7. /\ TrackStep /\ (Ready(track') <=> Ready(track))
      /\ ~ShowsKeyFrame /\ ~ShowsSlice /\ ~OutputsSlice /\ NoTornFrame'
  BY <1>2, <1>5, <1>6, SilentOut
<1>8. Common'
  BY <1>6, <1>7, CommonKept
<1>9. Rest'
  <2>1. /\ missed # 0 \/ unseen => torn
        /\ missed # 0 /\ decoder.last = 0 => unseen
        /\ torn /\ ~unseen /\ missed = 0 => decoder.gop
        /\ ~torn /\ ~shunned => ~decoder.gop
        /\ Ready(track) /\ ~leading /\ ~torn => keyShown
    BY <1>2, NotCutting DEF PathInv, Losses, Shown
  <2>2. Merging'
    BY <1>3, <1>5, <1>6 DEF Merging
  <2>3. Collected'
    <3>1. \A i \in 1 .. 1 : decoder'.buffer[i] = Piece(units + 1, k, i, FALSE)
      BY <1>6, Zenon DEF Begin
    <3>2. decoder'.buffer[1].no = 1 /\ DOMAIN decoder'.buffer = 1 .. 1
      BY <1>6, <3>1 DEF Begin, Piece
    <3>3. QED
      BY <1>6, <3>2 DEF Collected
  <2>4. torn' /\ ~unseen' /\ missed' = 0 => decoder'.gop
    BY <1>5, <1>6, <2>1 DEF Gap
  <2>5. ~torn' /\ ~shunned' /\ cutting'.kind # "idr" => ~decoder'.gop
    BY <1>3, <1>5, <1>6, <2>1 DEF Gap
  <2>6. cutting'.kind = "idr" => ~torn' /\ ~decoder'.fu
    BY <1>3, <1>5, <1>6
  <2>7. Ready(track)' /\ ~leading' /\ ~torn' /\ cutting'.kind # "idr" => keyShown'
    BY <1>3, <1>5, <1>7, <2>1, ReadyNext
  <2>8. QED
    BY <2>2, <2>3, <2>4, <2>5, <2>6, <2>7 DEF Rest
<1>10. QED
  BY <1>7, <1>8, <1>9 DEF Kept, SlicesAllowed

(* An aggregate whose last unit is cut short.                              *)
LEMMA CutKeeps ==
  ASSUME PathInv, NEW choice \in Choices, IsCut(choice), Send(choice, FALSE)
  PROVE  Kept
<1> DEFINE p == choice.packet
           k == Sets(codec)[1]
           frame == <<Whole(units + 1, k)>>
<1>1. Gives(TRUE, decoder.fu, << >>, <<frame>>) /\ codec \in Codecs /\ units \in Nat
  BY CutGives DEF PathInv, PathType
<1>2. /\ cutting = NoUnit /\ choice.cutting = NoUnit /\ choice.units = units + 1
      /\ p.structure = "cut" /\ p.pieces = <<Whole(units + 1, k)>> /\ k \in SetKinds
  BY <1>1, KindsAre DEF IsCut
<1> HIDE DEF k
<1>3. ~Begins(p, "idr") /\ ~Ends(p, "idr") /\ k \in AllKinds /\ k \notin {"idrRest", "slice"}
  BY <1>2, OneWhole DEF SetKinds, AllKinds
<1>4. /\ units' = units + 1 /\ cutting' = NoUnit /\ codec' = codec /\ missed' = 0 /\ torn' = TRUE
      /\ unseen' = unseen /\ track' = InputFrames(codec, track, decoder'.frames)
  <2>1. unseen \in BOOLEAN /\ FALSE \in BOOLEAN
    BY DEF PathInv, PathType
  <2>2. QED
    BY <1>2, <1>3, <2>1, SendIs
<1>5. frame \in Seq(Pieces) /\ frame # << >> /\ frame[1].unit = units' /\ IsWhole(frame) /\ Kind(frame) = k
  <2>1. Whole(units + 1, k) \in Pieces /\ Whole(units + 1, k).unit = units + 1
    <3>1. units + 1 \in Nat
      BY <1>1
    <3>2. QED
      BY <1>3, <3>1, WholeIsPiece
  <2>2. IsWhole(frame) /\ Kind(frame) = k
    BY WholeIsWhole
  <2>3. QED
    BY <1>4, <2>1, <2>2
<1> HIDE DEF p, frame
<1>6. /\ decoder' \in Decoders /\ decoder'.gop = TRUE
      /\ decoder'.fu = decoder.fu /\ decoder'.last = Seq1 /\ decoder'.buffer = << >>
      /\ decoder'.frames = IF TRUE THEN <<frame>> ELSE << >>
  BY <1>1 DEF Gives
<1>7. TrackStep /\ NoTornFrame' /\ ~ShowsSlice /\ ~OutputsSlice
  <2>1. units' \in Nat /\ units <= units' /\ TRUE \in BOOLEAN
    BY <1>1, <1>4
  <2>2. QED
    BY <1>3, <1>4, <1>5, <1>6, <2>1, UnitOut
<1>8. Common'
  BY <1>6, <1>7, CommonKept
<1>9. Rest'
  <2>1. Collected' /\ Merging'
    BY <1>4, <1>6 DEF Collected, Merging
  <2>2. cutting'.kind # "idr"
    BY <1>4, NotCutting
  <2>3. QED
    BY <1>4, <1>6, <2>1, <2>2 DEF Rest
<1>10. QED
  BY <1>7, <1>8, <1>9 DEF Kept, SlicesAllowed

(* A packet without a unit, or of a structure the decoder does not know.   *)
LEMMA UselessKeeps ==
  ASSUME PathInv, NEW choice \in Choices, IsUseless(choice), Send(choice, FALSE)
  PROVE  Kept
<1> DEFINE p == choice.packet
           odd == p.structure = "unsupported"
<1>1. Gives(decoder.gop \/ odd, decoder.fu, decoder.buffer, << >>) /\ units \in Nat
  BY UselessGives DEF PathInv, PathType
<1>2. /\ cutting = NoUnit /\ choice.cutting = NoUnit /\ choice.units = units
      /\ p.structure \in {"empty", "unsupported"} /\ p.pieces = << >>
  BY DEF IsUseless
<1>3. ~Begins(p, "idr") /\ ~Ends(p, "idr") /\ ~Ended(p, SetKinds)
  BY <1>2, NoPiece
<1>4. /\ units' = units /\ cutting' = NoUnit /\ codec' = codec /\ missed' = 0
      /\ leading' = leading /\ torn' = (odd \/ torn) /\ unseen' = unseen /\ shunned' = shunned
      /\ keyShown' = (keyShown \/ ShowsKeyFrame)
      /\ track' = InputFrames(codec, track, decoder'.frames)
  <2>1. torn \in BOOLEAN /\ unseen \in BOOLEAN /\ keyShown \in BOOLEAN /\ leading \in BOOLEAN
        /\ FALSE \in BOOLEAN
    BY DEF PathInv, PathType
  <2>2. p.structure \in {"unsupported", "cut"} <=> odd
    BY <1>2
  <2>3. QED
    BY <1>2, <1>3, <2>1, <2>2, SendIs
<1> HIDE DEF p, odd
<1>5. /\ decoder' \in Decoders /\ decoder'.gop = ((decoder.gop \/ odd) \/ Gap)
      /\ decoder'.fu = decoder.fu /\ decoder'.last = Seq1 /\ decoder'.buffer = decoder.buffer
      /\ decoder'.frames = << >>
  BY <1>1 DEF Gives
<1>6. /\ TrackStep /\ (Ready(track') <=> Ready(track))
      /\ ~ShowsKeyFrame /\ ~ShowsSlice /\ ~OutputsSlice /\ NoTornFrame'
  BY <1>1, <1>4, <1>5, SilentOut
<1>7. Common'
  BY <1>5, <1>6, CommonKept
<1>8. Rest'
  <2>1. /\ missed # 0 \/ unseen => torn
        /\ missed # 0 /\ decoder.last = 0 => unseen
        /\ torn /\ ~unseen /\ missed = 0 => decoder.gop
        /\ ~torn /\ ~shunned => ~decoder.gop
        /\ Ready(track) /\ ~leading /\ ~torn => keyShown
        /\ Collected
    BY <1>2, NotCutting DEF PathInv, Losses, Shown
  <2>2. Merging'
    BY <1>4 DEF Merging
  <2>3. Collected'
    BY <1>5, <2>1 DEF Collected
  <2>4. torn' /\ ~unseen' /\ missed' = 0 => decoder'.gop
    BY <1>4, <1>5, <2>1 DEF Gap
  <2>5. ~torn' /\ ~shunned' => ~decoder'.gop
    BY <1>4, <1>5, <2>1 DEF Gap
  <2>6. cutting'.kind # "idr"
    BY <1>4, NotCutting
  <2>7. Ready(track)' /\ ~leading' /\ ~torn' => keyShown'
    BY <1>4, <1>6, <2>1, ReadyNext
  <2>8. QED
    BY <2>2, <2>3, <2>4, <2>5, <2>6, <2>7 DEF Rest
<1>9. QED
  BY <1>6, <1>7, <1>8 DEF Kept, SlicesAllowed

(* A packet that is lost.                                                  *)
LEMMA LostKeeps ==
  ASSUME PathInv, NEW choice \in Choices, Send(choice, TRUE)
  PROVE  Kept
<1> DEFINE idr == Begins(choice.packet, "idr")
<1>1. /\ codec' = codec /\ missed' = missed + 1 /\ torn' = TRUE
      /\ track' = Silent(track) /\ decoder' = Begun
  <2>1. TRUE \in BOOLEAN
    OBVIOUS
  <2>2. QED
    BY <2>1, SendIs
<1>2. decoder \in Decoders /\ Collected /\ missed \in Nat
  BY PathAssumption DEF PathInv, PathType
<1>3. /\ decoder' \in Decoders /\ decoder'.fu = decoder.fu /\ decoder'.last = decoder.last
      /\ decoder'.buffer = decoder.buffer /\ decoder'.frames = << >>
  BY <1>1, <1>2, BegunIs
<1>4. units' \in Nat /\ units <= units'
  <2>1. TRUE \in BOOLEAN
    OBVIOUS
  <2>2. QED
    BY <2>1, CuttingKept
<1>5. /\ TrackStep /\ ~ShowsSlice /\ ~OutputsSlice /\ NoTornFrame'
  BY <1>1, <1>3, <1>4, SilentOut
<1>6. Common'
  <2>1. TRUE \in BOOLEAN
    OBVIOUS
  <2>2. QED
    BY <1>3, <1>5, <2>1, CommonKept
<1>7. Rest'
  <2>1. Collected'
    BY <1>2, <1>3 DEF Collected
  <2>2. missed' # 0
    BY <1>1, <1>2
  <2>3. Merging'
    BY <2>2 DEF Merging
  <2>4. QED
    BY <1>1, <2>1, <2>2, <2>3 DEF Rest
<1>8. QED
  BY <1>5, <1>6, <1>7 DEF Kept, SlicesAllowed

(* The fragments of a unit that were collected are numbered from one.      *)
LEMMA BeginIsCollected ==
  ASSUME NEW unit, NEW kind, NEW n \in Nat, NEW buffer, buffer = Begin(unit, kind, n), n # 0
  PROVE  /\ DOMAIN buffer = 1 .. n
         /\ \A i \in 1 .. n : buffer[i].no = i /\ buffer[i].unit = buffer[1].unit
<1>1. DOMAIN buffer = 1 .. n
  BY Zenon DEF Begin
<1>2. ASSUME NEW i \in 1 .. n PROVE buffer[i].no = i /\ buffer[i].unit = unit
  <2>1. buffer[i] = Piece(unit, kind, i, FALSE)
    BY Zenon DEF Begin
  <2>2. QED
    BY <2>1 DEF Piece
<1>3. 1 \in 1 .. n
  OBVIOUS
<1>4. QED
  BY <1>1, <1>2, <1>3

(* All fragments of a unit are a whole frame.                              *)
LEMMA AllIsWhole ==
  ASSUME NEW unit \in Nat, NEW kind \in AllKinds, NEW n \in Nat, n # 0
  PROVE  /\ AllOf(unit, kind, n) \in Seq(Pieces) /\ AllOf(unit, kind, n) # << >>
         /\ AllOf(unit, kind, n)[1].unit = unit /\ Kind(AllOf(unit, kind, n)) = kind
         /\ IsWhole(AllOf(unit, kind, n))
<1> DEFINE frame == AllOf(unit, kind, n)
<1>1. frame \in Seq(Pieces)
  <2>1. n - 1 \in Nat /\ (n - 1) + 1 = n
    OBVIOUS
  <2>2. AllOf(unit, kind, (n - 1) + 1) \in Seq(Pieces)
    BY <2>1, BeginAppend
  <2>3. QED
    BY <2>1, <2>2
<1>2. DOMAIN frame = 1 .. n
  BY Zenon DEF AllOf
<1>3. ASSUME NEW i \in 1 .. n
      PROVE  frame[i].no = i /\ frame[i].unit = unit /\ frame[i].kind = kind /\ (frame[i].last <=> i = n)
  <2> DEFINE last == i = n
  <2>1. frame[i] = Piece(unit, kind, i, last)
    BY Zenon DEF AllOf
  <2> HIDE DEF last, frame
  <2>2. frame[i].no = i /\ frame[i].unit = unit /\ frame[i].kind = kind /\ frame[i].last = last
    BY <2>1 DEF Piece
  <2>3. QED
    BY <2>2 DEF last
<1> HIDE DEF frame
<1>4. Len(frame) = n /\ 1 \in 1 .. n
  BY <1>1, <1>2
<1>5. frame # << >> /\ frame[1].unit = unit /\ Kind(frame) = kind
  BY <1>3, <1>4 DEF Kind
<1>6. IsWhole(frame)
  BY <1>2, <1>3, <1>4 DEF IsWhole
<1>7. QED
  BY <1>1, <1>5, <1>6 DEF frame

(* A fragment that goes on with the unit that is being cut, or ends it.    *)
LEMMA NextKeeps ==
  ASSUME PathInv, NEW choice \in Choices, NEW last, IsNext(choice, last), Send(choice, FALSE)
  PROVE  Kept
<1> DEFINE p == choice.packet
           n == cutting.no + 1
           kind == cutting.kind
           piece == Piece(units, kind, n, last)
           frame == AllOf(units, kind, n)
           idrEnds == kind = "idr" /\ last
<1>1. /\ decoder.fu \/ missed # 0 => Gives(decoder.gop, TRUE, << >>, << >>)
      /\ ~decoder.fu /\ missed = 0 /\ ~last =>
           Gives(decoder.gop, FALSE, Begin(units, kind, n), << >>)
      /\ ~decoder.fu /\ missed = 0 /\ last =>
           Gives(decoder.gop /\ kind # "idr", TRUE, << >>,
                 IF ~decoder.gop \/ kind = "idr" THEN <<frame>> ELSE << >>)
  BY NextGives
<1>2. /\ cutting # NoUnit /\ last \in BOOLEAN /\ units \in Nat /\ codec \in Codecs
      /\ cutting = Piece(units, kind, cutting.no, FALSE)
      /\ cutting.no \in 1 .. MaxPieces - 1 /\ kind \in Kinds
      /\ (kind \in SliceKinds => ~leading)
  BY DEF PathInv, PathType, Cutting, IsNext
<1>3. cutting.unit = units /\ n \in Nat /\ n # 0 /\ n # 1
  <2>1. cutting.unit = units
    BY <1>2 DEF Piece
  <2>2. QED
    BY <1>2, <2>1, PathAssumption
<1>4. kind \in AllKinds /\ kind \notin SetKinds
  BY <1>2, KindsAre DEF SliceKinds, OtherKinds, SetKinds
<1>5. /\ p.structure = "fragment" /\ p.pieces = <<piece>>
      /\ choice.units = units /\ choice.cutting = IF last THEN NoUnit ELSE piece
  BY <1>3 DEF IsNext
<1> HIDE DEF p, n, kind, frame
<1>6. piece.kind = kind /\ piece.no = n /\ piece.last = last /\ piece.unit = units
  BY DEF Piece
<1> HIDE DEF piece
<1>7. ~Begins(p, "idr") /\ (Ends(p, "idr") <=> idrEnds) /\ ~Ended(p, SetKinds)
  BY <1>3, <1>4, <1>5, <1>6, OnePiece
<1> HIDE DEF idrEnds
<1>8. /\ units' = units /\ cutting' = (IF last THEN NoUnit ELSE piece) /\ codec' = codec
      /\ leading' = leading /\ missed' = 0 /\ torn' = torn /\ unseen' = unseen
      /\ shunned' = (IF idrEnds THEN missed # 0 ELSE shunned)
      /\ keyShown' = (keyShown \/ ShowsKeyFrame)
      /\ track' = InputFrames(codec, track, decoder'.frames)
  <2>1. torn \in BOOLEAN /\ unseen \in BOOLEAN /\ keyShown \in BOOLEAN /\ leading \in BOOLEAN
        /\ FALSE \in BOOLEAN
    BY DEF PathInv, PathType
  <2>2. p.structure \notin {"unsupported", "cut"}
    BY <1>5
  <2>3. QED
    BY <1>5, <1>7, <2>1, <2>2, SendIs DEF p
<1>9. /\ frame \in Seq(Pieces) /\ frame # << >> /\ frame[1].unit = units' /\ Kind(frame) = kind
      /\ IsWhole(frame)
  BY <1>2, <1>3, <1>4, <1>8, AllIsWhole DEF frame
<1> DEFINE whole == ~decoder.fu /\ missed = 0 /\ last
           out == whole /\ (~decoder.gop \/ kind = "idr")
           keyOut == whole /\ kind = "idr"
<1>10. /\ decoder' \in Decoders /\ decoder'.gop = ((decoder.gop /\ ~keyOut) \/ Gap)
       /\ decoder'.last = Seq1
       /\ decoder'.fu = (decoder.fu \/ missed # 0 \/ last)
       /\ decoder'.fu => decoder'.buffer = << >>
       /\ ~decoder'.fu => decoder'.buffer = Begin(units, kind, n)
       /\ decoder'.frames = IF out THEN <<frame>> ELSE << >>
  <2>1. CASE decoder.fu \/ missed # 0
    BY <1>1, <2>1 DEF Gives, Decoders
  <2>2. CASE ~decoder.fu /\ missed = 0 /\ ~last
    BY <1>1, <1>2, <2>2 DEF Gives, Decoders
  <2>3. CASE ~decoder.fu /\ missed = 0 /\ last
    <3>1. Gives(decoder.gop /\ kind # "idr", TRUE, << >>,
                IF ~decoder.gop \/ kind = "idr" THEN <<frame>> ELSE << >>)
      BY <1>1, <2>3
    <3>2. decoder'.frames = IF out THEN <<frame>> ELSE << >>
      BY <2>3, <3>1 DEF Gives
    <3>3. (decoder.gop /\ kind # "idr") = (decoder.gop /\ ~keyOut) /\ (decoder.fu \/ missed # 0 \/ last)
      BY <2>3
    <3>4. QED
      BY <3>1, <3>2, <3>3 DEF Gives
  <2>4. QED
    BY <2>1, <2>2, <2>3
<1>11. /\ out \in BOOLEAN /\ keyOut \in BOOLEAN /\ (keyOut => out)
  BY <1>2
<1> HIDE DEF out
<1>12. /\ TrackStep /\ NoTornFrame' /\ (Ready(track') <=> Ready(track))
       /\ out /\ kind = "idr" /\ Ready(track) => ShowsKeyFrame
       /\ ShowsSlice => out /\ kind \in {"idrRest", "slice"} /\ Ready(track)
       /\ OutputsSlice => out /\ kind \in {"idrRest", "slice"}
  <2>1. units' \in Nat /\ units <= units'
    BY <1>2, <1>8
  <2>2. /\ TrackStep /\ NoTornFrame'
        /\ ~ConfigFrame(frame) => (Ready(track') <=> Ready(track))
        /\ out /\ KeyFrame(frame) /\ Ready(track) => ShowsKeyFrame
        /\ ShowsSlice => out /\ Kind(frame) \in {"idrRest", "slice"} /\ Ready(track)
        /\ OutputsSlice => out /\ Kind(frame) \in {"idrRest", "slice"}
    BY <1>8, <1>9, <1>10, <1>11, <2>1, UnitOut
  <2>3. ~ConfigFrame(frame) /\ (KeyFrame(frame) <=> kind = "idr")
    BY <1>4, <1>9 DEF ConfigFrame, KeyFrame
  <2>4. QED
    BY <1>9, <2>2, <2>3
<1>13. Common'
  BY <1>10, <1>12, CommonKept
<1>14. /\ missed # 0 \/ unseen => torn
       /\ missed # 0 /\ decoder.last = 0 => unseen
       /\ torn /\ ~unseen /\ missed = 0 => decoder.gop
       /\ ~torn /\ ~shunned /\ kind # "idr" => ~decoder.gop
       /\ ~torn /\ kind = "idr" => ~decoder.fu
       /\ ~decoder.fu /\ missed = 0 /\ kind = "idr" => ~torn
       /\ Ready(track) /\ ~leading /\ ~torn /\ kind # "idr" => keyShown
  BY DEF PathInv, Losses, Shown, kind
<1>15. last => cutting'.kind # "idr"
  BY <1>8, NotCutting
<1>16. ~last => cutting' = piece /\ cutting'.kind = kind
  BY <1>6, <1>8
<1>17. Rest'
  <2>1. Merging'
    <3> SUFFICES ASSUME ~decoder'.fu, cutting' # NoUnit
                 PROVE  decoder'.buffer = Begin(cutting'.unit, cutting'.kind, cutting'.no)
      BY DEF Merging
    <3>1. ~last
      BY <1>10
    <3>2. cutting'.kind = kind /\ cutting'.no = n /\ cutting'.unit = units
      BY <1>6, <1>8, <3>1
    <3>3. QED
      BY <1>10, <3>2
  <2>2. Collected'
    <3>1. CASE decoder'.fu
      BY <1>10, <3>1 DEF Collected
    <3>2. CASE ~decoder'.fu
      <4>1. decoder'.buffer = Begin(units, kind, n)
        BY <1>10, <3>2
      <4>2. /\ DOMAIN decoder'.buffer = 1 .. n
            /\ \A i \in 1 .. n : decoder'.buffer[i].no = i /\ decoder'.buffer[i].unit = decoder'.buffer[1].unit
        BY <1>3, <4>1, BeginIsCollected
      <4>3. QED
        BY <3>2, <4>2 DEF Collected
    <3>3. QED
      BY <3>1, <3>2
  <2>3. torn' /\ ~unseen' /\ missed' = 0 => decoder'.gop
    BY <1>8, <1>10, <1>14 DEF Gap
  <2>4. ~torn' /\ ~shunned' /\ cutting'.kind # "idr" => ~decoder'.gop
    <3> SUFFICES ASSUME ~torn', ~shunned', cutting'.kind # "idr" PROVE ~decoder'.gop
      OBVIOUS
    <3>1. ~torn /\ missed = 0
      BY <1>8, <1>14
    <3>2. CASE kind # "idr"
      BY <1>8, <1>10, <1>14, <3>1, <3>2 DEF Gap, idrEnds
    <3>3. CASE kind = "idr"
      <4>1. last /\ ~decoder.fu
        BY <1>14, <1>16, <3>1, <3>3
      <4>2. QED
        BY <1>10, <3>1, <3>3, <4>1 DEF Gap
    <3>4. QED
      BY <3>2, <3>3
  <2>5. ~torn' /\ cutting'.kind = "idr" => ~decoder'.fu
    BY <1>8, <1>10, <1>14, <1>15, <1>16
  <2>6. ~decoder'.fu /\ missed' = 0 /\ cutting'.kind = "idr" => ~torn'
    BY <1>8, <1>10, <1>14, <1>15, <1>16
  <2>7. Ready(track)' /\ ~leading' /\ ~torn' /\ cutting'.kind # "idr" => keyShown'
    <3> SUFFICES ASSUME Ready(track)', ~leading', ~torn', cutting'.kind # "idr" PROVE keyShown'
      OBVIOUS
    <3>1. Ready(track) /\ ~leading /\ ~torn /\ missed = 0
      BY <1>8, <1>12, <1>14, ReadyNext
    <3>2. CASE kind # "idr"
      BY <1>8, <1>14, <3>1, <3>2
    <3>3. CASE kind = "idr"
      <4>1. last /\ ~decoder.fu
        BY <1>14, <1>16, <3>1, <3>3
      <4>2. out
        BY <1>11, <3>1, <3>3, <4>1
      <4>3. QED
        BY <1>8, <1>12, <3>1, <3>3, <4>2
    <3>4. QED
      BY <3>2, <3>3
  <2>8. QED
    BY <2>1, <2>2, <2>3, <2>4, <2>5, <2>6, <2>7 DEF Rest
<1>18. SlicesAllowed
  <2>1. CASE kind = "idr"
    <3>1. kind \notin {"idrRest", "slice"}
      BY <2>1
    <3>2. QED
      BY <1>12, <3>1 DEF SlicesAllowed
  <2>2. CASE kind # "idr"
    <3>1. p.structure \notin {"unsupported", "cut"}
      BY <1>5
    <3>2. out => ~decoder.gop
      BY <2>2 DEF out
    <3>3. kind \in {"idrRest", "slice"} => ~leading
      BY <1>2 DEF SliceKinds
    <3>4. QED
      BY <1>7, <1>12, <2>2, <3>1, <3>2, <3>3, SliceIsAllowed DEF p, kind
  <2>3. QED
    BY <2>1, <2>2
<1>19. QED
  BY <1>12, <1>13, <1>17, <1>18 DEF Kept

-----------------------------------------------------------------------------
(* The invariant holds.                                                    *)
LEMMA StepKeeps ==
  ASSUME PathInv, NEW choice \in Choices, NEW lost \in BOOLEAN, Send(choice, lost)
  PROVE  Kept
<1>1. CASE lost = TRUE
  BY <1>1, LostKeeps
<1>2. CASE lost = FALSE
  <2>1. Send(choice, FALSE) /\ units \in Nat
    BY <1>2 DEF PathInv, PathType
  <2>2. QED
    BY <2>1, ChoiceIs, SingleKeeps, AggregateKeeps, FirstKeeps, NextKeeps, CutKeeps, UselessKeeps
<1>3. QED
  BY <1>1, <1>2

(* A decoder that is new has seen nothing, and waits for a first fragment. *)
LEMMA NewDecoderIs ==
  ASSUME codec \in Codecs, decoder = NewVideoDecoder(codec)
  PROVE  /\ decoder \in Decoders /\ decoder.gop = FALSE /\ decoder.fu = TRUE
         /\ decoder.last = 0 /\ decoder.buffer = << >> /\ decoder.frames = << >>
<1>1. decoder = H264!NewDecoder
  BY DEF NewVideoDecoder, H265!NewDecoder, H265!H264!NewDecoder, H264!NewDecoder
<1>2. /\ decoder = [gop |-> decoder.gop, fu |-> decoder.fu, last |-> 0, buffer |-> << >>, frames |-> << >>]
      /\ decoder.gop = FALSE /\ decoder.fu = TRUE
  BY <1>1 DEF H264!NewDecoder
<1>3. 0 \in 0 .. SeqMod - 1 /\ << >> \in Seq(Pieces) /\ << >> \in Seq(Seq(Pieces))
  BY PathAssumption
<1>4. decoder.gop \in BOOLEAN /\ decoder.fu \in BOOLEAN
  BY <1>2
<1>5. decoder \in Decoders
  <2> DEFINE gop == decoder.gop
             fu == decoder.fu
  <2>1. decoder = [gop |-> gop, fu |-> fu, last |-> 0, buffer |-> << >>, frames |-> << >>]
        /\ gop \in BOOLEAN /\ fu \in BOOLEAN
    BY <1>2, <1>4
  <2> HIDE DEF gop, fu
  <2>2. QED
    BY <1>3, <2>1 DEF Decoders
<1>6. QED
  BY <1>2, <1>5

(* A track that is new has no parameter set and told nothing.              *)
LEMMA NewTrackIs ==
  ASSUME codec \in Codecs, track = NewTrack
  PROVE  /\ track \in Tracks /\ \A k \in SetKinds : track.sets[k] = 0
         /\ ~track.told /\ track.extra = << >> /\ ~Ready(track)
<1>1. /\ track.sets = [k \in SetKinds |-> 0] /\ track.told = FALSE /\ track.extra = << >>
      /\ track.shown = << >>
      /\ track = [sets |-> track.sets, told |-> track.told, extra |-> << >>, shown |-> << >>]
  BY DEF NewTrack
<1>2. track.told \in BOOLEAN /\ track.sets \in [SetKinds -> Nat]
  <2>1. track.told \in BOOLEAN
    BY <1>1
  <2>2. track.sets \in [SetKinds -> Nat]
    BY <1>1
  <2>3. QED
    BY <2>1, <2>2
<1>3. track \in Tracks
  <2>1. << >> \in Seq(Pieces) /\ << >> \in Seq(Seq(Pieces))
    OBVIOUS
  <2>2. QED
    BY <1>1, <1>2, <2>1 DEF Tracks
<1>4. \A k \in SetKinds : track.sets[k] = 0
  BY <1>1
<1>5. ~Ready(track)
  <2>1. track.sets["sps"] = 0
    BY <1>4 DEF SetKinds
  <2>2. QED
    BY <2>1 DEF Ready, H264Ready, H265Ready
<1>6. QED
  BY <1>1, <1>3, <1>4, <1>5

(* The invariant holds before the first packet.                            *)
LEMMA InitHolds ==
  ASSUME Init
  PROVE  PathInv
<1>1. /\ codec \in Codecs /\ sent = 0 /\ units = 0 /\ cutting = NoUnit /\ leading = FALSE
      /\ missed = 0 /\ torn = FALSE /\ unseen = FALSE /\ shunned = FALSE /\ keyShown = FALSE
  BY DEF Init
<1>2. /\ decoder \in Decoders /\ decoder.gop = FALSE /\ decoder.fu = TRUE
      /\ decoder.last = 0 /\ decoder.buffer = << >>
  BY NewDecoderIs DEF Init
<1>3. /\ track \in Tracks /\ \A k \in SetKinds : track.sets[k] = 0
      /\ ~track.told /\ track.extra = << >> /\ ~Ready(track)
  BY NewTrackIs DEF Init
<1>4. PathType
  <2>1. {leading, torn, unseen, shunned, keyShown} \subseteq BOOLEAN
    BY <1>1
  <2>2. \A k \in SetKinds : track.sets[k] <= units
    BY <1>1, <1>3
  <2>3. QED
    BY <1>1, <1>2, <1>3, <2>1, <2>2, PathAssumption DEF PathType
<1>5. Position
  BY <1>1, <1>2 DEF Position
<1>6. Cutting /\ Merging /\ Collected
  <2>1. DOMAIN decoder.buffer = {}
    BY <1>2
  <2>2. QED
    BY <1>1, <1>2, <2>1 DEF Cutting, Merging, Collected
<1>7. Losses
  BY <1>1, <1>2, NotCutting DEF Losses
<1>8. Shown
  BY <1>1, <1>3 DEF Shown
<1>9. QED
  BY <1>4, <1>5, <1>6, <1>7, <1>8 DEF PathInv

(* A step that the video stream has no part in.                            *)
LEMMA Stutter ==
  ASSUME PathInv, UNCHANGED vars
  PROVE  PathInv'
<1>1. /\ codec' = codec /\ decoder' = decoder /\ track' = track /\ sent' = sent /\ units' = units
      /\ cutting' = cutting /\ leading' = leading /\ missed' = missed /\ torn' = torn
      /\ unseen' = unseen /\ shunned' = shunned /\ keyShown' = keyShown
  BY DEF vars, senderVars, historyVars
<1>2. Ready(track)' <=> Ready(track)
  BY <1>1 DEF Ready, H264Ready, H265Ready
<1>3. PathType' /\ Position' /\ Cutting' /\ Collected' /\ Merging'
  BY <1>1 DEF PathInv, PathType, Position, Cutting, Collected, Merging
<1>4. Losses' /\ Shown'
  BY <1>1, <1>2 DEF PathInv, Losses, Shown
<1>5. QED
  BY <1>3, <1>4 DEF PathInv

(* A step of the media is one of the video stream, or leaves it alone.     *)
LEMMA VideoStep ==
  ASSUME MediaNext
  PROVE  Next \/ UNCHANGED vars
  BY DEF MediaNext, SendVideo, SendAudio, ChooseOrder, Picture, PictureAgain, PictureLost,
         PicturesMayMove

(* The invariant of the video stream holds of every behaviour.             *)
LEMMA PathInvariant ==
  MediaSpec => []PathInv
<1>1. MediaInit => PathInv
  BY InitHolds DEF MediaInit
<1>2. PathInv /\ [MediaNext]_mediaVars => PathInv'
  <2> SUFFICES ASSUME PathInv, [MediaNext]_mediaVars PROVE PathInv'
    OBVIOUS
  <2>1. Next \/ UNCHANGED vars
    BY VideoStep DEF mediaVars
  <2>2. CASE Next
    <3>1. Kept
      BY <2>2, StepKeeps DEF Next
    <3>2. (PathInv <=> Common /\ Rest)'
      BY Parts, PTL
    <3>3. QED
      BY <3>1, <3>2 DEF Kept
  <2>3. QED
    BY <2>1, <2>2, Stutter
<1>3. QED
  BY <1>1, <1>2, PTL DEF MediaSpec

(* It implies the type invariant that the runs check.                      *)
LEMMA TypeFollows ==
  ASSUME PathInv
  PROVE  TypeOK
<1>1. decoder.gop \in BOOLEAN /\ decoder.fu \in BOOLEAN /\ decoder.last \in 0 .. SeqMod - 1
  BY DEF PathInv, PathType, Decoders
<1>2. track.told \in BOOLEAN /\ track.sets \in [SetKinds -> 0 .. units]
  <2>1. /\ track.told \in BOOLEAN /\ track.sets \in [SetKinds -> Nat] /\ units \in Nat
        /\ \A k \in SetKinds : track.sets[k] <= units
    BY DEF PathInv, PathType, Tracks
  <2>2. QED
    BY <2>1
<1>3. QED
  BY <1>1, <1>2 DEF TypeOK, PathInv, PathType, Collected

(* It implies that a unit of its own is dropped only in a torn group of    *)
(* pictures.                                                               *)
LEMMA UnitIsOutput ==
  ASSUME PathInv, NEW choice \in Choices, ~shunned'
  PROVE  OutputsSingle(choice)
<1> SUFFICES ASSUME Send(choice, FALSE), choice.packet.structure = "single", ~torn'
             PROVE  decoder'.frames # << >>
  BY DEF OutputsSingle
<1>1. PICK k : IsSingle(choice, k)
  <2>1. units \in Nat
    BY DEF PathInv, PathType
  <2>2. QED
    BY <2>1, ChoiceIs DEF IsAggregate, IsFirst, IsNext, IsCut, IsUseless
<1>2. decoder'.frames = IF ~decoder.gop \/ k = "idr" \/ k \in SetKinds
                        THEN << <<Whole(units + 1, k)>> >> ELSE << >>
  BY <1>1, SingleGives DEF Gives
<1>3. ASSUME k # "idr" PROVE ~decoder.gop
  <2>1. ~Begins(choice.packet, "idr") /\ ~Ends(choice.packet, "idr")
    BY <1>1, <1>3, OneWhole DEF IsSingle
  <2>2. ~torn /\ ~shunned
    <3>1. FALSE \in BOOLEAN
      OBVIOUS
    <3>2. QED
      BY <2>1, <3>1, SendIs
  <2>3. cutting.kind # "idr"
    BY <1>1, NotCutting DEF IsSingle
  <2>4. QED
    BY <2>2, <2>3 DEF PathInv, Losses
<1>4. QED
  BY <1>2, <1>3

(* What every step of the video stream does, under the invariant.          *)
LEMMA VideoActions ==
  ASSUME PathInv, [MediaNext]_mediaVars
  PROVE  /\ UNCHANGED vars \/ Kept
         /\ [OutputsSlice => ~torn' \/ unseen' \/ lostBefore]_vars
         /\ [\A choice \in Choices : ~shunned' => OutputsSingle(choice)]_vars
         /\ [ShowsSlice => (track'.told /\ keyShown') \/ unseen' \/ lostBefore]_vars
         /\ [track'.extra # track.extra =>
              /\ track'.told
              /\ track'.extra = [i \in DOMAIN Sets(codec) |->
                                   Whole(track'.sets[Sets(codec)[i]], Sets(codec)[i])]]_vars
<1>1. UNCHANGED vars \/ Next
  BY VideoStep DEF mediaVars
<1>2. CASE UNCHANGED vars
  BY <1>2
<1>3. CASE Next
  <2>1. Kept
    BY <1>3, StepKeeps DEF Next
  <2>2. \A choice \in Choices : ~shunned' => OutputsSingle(choice)
    BY UnitIsOutput
  <2>3. track'.extra # track.extra =>
          track'.told /\ track'.extra = [i \in DOMAIN Sets(codec) |->
                                           Whole(track'.sets[Sets(codec)[i]], Sets(codec)[i])]
    BY <2>1 DEF Kept, TrackStep, Extra
  <2>4. QED
    BY <2>1, <2>2, <2>3 DEF Kept, SlicesAllowed
<1>4. QED
  BY <1>1, <1>2, <1>3

(***************************************************************************)
(* Once a loss is seen, no slice of the torn group of pictures leaves the  *)
(* depacketizer, except those in the very packet that showed it: whatever  *)
(* is lost between and inside the units, for any number of losses in a row *)
(* that is smaller than the number space.                                  *)
(***************************************************************************)
THEOREM GopsAreWhole == MediaSpec => GopIsWhole
<1>1. PathInv /\ [MediaNext]_mediaVars => [OutputsSlice => ~torn' \/ unseen' \/ lostBefore]_vars
  BY VideoActions
<1>2. QED
  BY <1>1, PathInvariant, PTL DEF MediaSpec, GopIsWhole

(***************************************************************************)
(* A group of pictures that lost nothing is output unit by unit: the flags *)
(* of H264RtpDecoder and H265RtpDecoder drop no more than they must.       *)
(***************************************************************************)
THEOREM NothingElseIsDropped == MediaSpec => OnlyTornGopsAreDropped
<1>1. PathInv /\ [MediaNext]_mediaVars
        => [\A choice \in Choices : ~shunned' => OutputsSingle(choice)]_vars
  BY VideoActions
<1>2. QED
  BY <1>1, PathInvariant, PTL DEF MediaSpec, OnlyTornGopsAreDropped

(***************************************************************************)
(* The application never gets a slice before the parameters were told and  *)
(* the key frame of its group was shown, across the depacketizer, the      *)
(* track and the callback, none of which knows what the others do.         *)
(***************************************************************************)
THEOREM SlicesCanBeDecoded == MediaSpec => SlicesFollowTheirKeyFrame
<1>1. PathInv /\ [MediaNext]_mediaVars
        => [ShowsSlice => (track'.told /\ keyShown') \/ unseen' \/ lostBefore]_vars
  BY VideoActions
<1>2. QED
  BY <1>1, PathInvariant, PTL DEF MediaSpec, SlicesFollowTheirKeyFrame

(***************************************************************************)
(* video_param_cb is told with the sets that were received last when the   *)
(* first key frame is shown, each once and in the codec's order, and what  *)
(* it was told with never changes after.                                   *)
(***************************************************************************)
THEOREM ParametersAreTold == MediaSpec => ToldWithItsSets
<1>1. PathInv /\ [MediaNext]_mediaVars
        => [track'.extra # track.extra =>
              /\ track'.told
              /\ track'.extra = [i \in DOMAIN Sets(codec) |->
                                   Whole(track'.sets[Sets(codec)[i]], Sets(codec)[i])]]_vars
  BY VideoActions
<1>2. QED
  BY <1>1, PathInvariant, PTL DEF MediaSpec, ToldWithItsSets

-----------------------------------------------------------------------------
(* The audio stream.  What the depacketizer holds is what arrived since it *)
(* began the frame, or nothing once a gap was seen in it.                  *)
AudioPackets  == [seq : 0 .. SeqMod - 1, stamp : Nat]
AudioDecoders == [drop : BOOLEAN, last : 0 .. SeqMod - 1, stamp : Nat,
                  buffer : Seq(AudioPackets), output : Seq(AudioPackets)]

AudioInv ==
  /\ audio \in AudioDecoders /\ heard \in Seq(AudioPackets)
  /\ audioSent \in Nat /\ audioStamp \in Nat
  /\ audio.stamp <= audioStamp /\ Len(audio.buffer) <= MaxFrameSize + 1
  /\ audioSent = 0 => heard = << >> /\ audio.output = << >>
  /\ group # << >> => audioSent = 0
  /\ heard = << >> => audio.last = 0
  /\ heard # << >> => audio.last = heard[Len(heard)].seq
  /\ ~audio.drop => audio.buffer = heard /\ Consecutive(heard)
  /\ audio.drop => audio.buffer = << >> /\ ~Consecutive(heard)

(* A packet that is appended follows the last one, or does not.            *)
LEMMA ConsecutiveAppend ==
  ASSUME NEW packets \in Seq(AudioPackets), NEW p \in AudioPackets
  PROVE  Consecutive(Append(packets, p)) <=>
           /\ Consecutive(packets)
           /\ packets # << >> /\ packets[Len(packets)].seq # 0
                => p.seq = (packets[Len(packets)].seq + 1) % SeqMod
<1> DEFINE n == Len(packets)
           more == Append(packets, p)
<1>1. /\ n \in Nat /\ more \in Seq(AudioPackets) /\ Len(more) = n + 1 /\ more[n + 1] = p
      /\ \A i \in 1 .. n : more[i] = packets[i]
      /\ packets # << >> <=> n # 0
  OBVIOUS
<1> DEFINE Follows1(s, i) == s[i].seq # 0 => s[i + 1].seq = (s[i].seq + 1) % SeqMod
<1>2. /\ Consecutive(packets) <=> \A i \in 1 .. n - 1 : Follows1(packets, i)
      /\ Consecutive(more) <=> \A i \in 1 .. (n + 1) - 1 : Follows1(more, i)
  BY <1>1 DEF Consecutive
<1> HIDE DEF n, more
<1>3. ASSUME NEW i \in 1 .. n - 1
      PROVE  i \in 1 .. n /\ (Follows1(more, i) <=> Follows1(packets, i))
  <2>1. i \in 1 .. n /\ i + 1 \in 1 .. n
    BY <1>1
  <2>2. more[i] = packets[i] /\ more[i + 1] = packets[i + 1]
    BY <1>1, <2>1
  <2>3. QED
    BY <2>1, <2>2
<1>4. ASSUME n # 0
      PROVE  /\ n \in 1 .. n
             /\ Follows1(more, n) <=> (packets[n].seq # 0 => p.seq = (packets[n].seq + 1) % SeqMod)
  <2>1. n \in 1 .. n /\ more[n] = packets[n] /\ more[n + 1] = p
    BY <1>1, <1>4
  <2>2. QED
    BY <2>1
<1>5. \A i \in 1 .. (n + 1) - 1 : i \in 1 .. n - 1 \/ (i = n /\ n # 0)
  BY <1>1
<1> HIDE DEF Follows1
<1>6. (\A i \in 1 .. (n + 1) - 1 : Follows1(more, i)) <=>
        /\ \A i \in 1 .. n - 1 : Follows1(packets, i)
        /\ n # 0 => (packets[n].seq # 0 => p.seq = (packets[n].seq + 1) % SeqMod)
  <2>1. 1 .. (n + 1) - 1 = 1 .. n
    BY <1>1
  <2>2. QED
    BY <1>3, <1>4, <1>5, <2>1
<1>7. QED
  BY <1>1, <1>2, <1>6 DEF n, more

(* An audio decoder with four fields changed, field by field.              *)
LEMMA AudioParts ==
  ASSUME NEW d \in AudioDecoders, NEW drop, NEW last, NEW buffer, NEW output
  PROVE  [d EXCEPT !.drop = drop, !.last = last, !.output = output, !.buffer = buffer] =
           [drop |-> drop, last |-> last, stamp |-> d.stamp, buffer |-> buffer, output |-> output]
<1> DEFINE d1 == [d EXCEPT !.drop = drop]
           d2 == [d1 EXCEPT !.last = last]
           d3 == [d2 EXCEPT !.output = output]
<1>1. d1 = [drop |-> drop, last |-> d.last, stamp |-> d.stamp, buffer |-> d.buffer, output |-> d.output]
  BY DEF AudioDecoders
<1> HIDE DEF d1
<1>2. d2 = [drop |-> drop, last |-> last, stamp |-> d.stamp, buffer |-> d.buffer, output |-> d.output]
  BY <1>1
<1> HIDE DEF d2
<1>3. d3 = [drop |-> drop, last |-> last, stamp |-> d.stamp, buffer |-> d.buffer, output |-> output]
  BY <1>2
<1> HIDE DEF d3
<1>4. [d3 EXCEPT !.buffer = buffer] =
        [drop |-> drop, last |-> last, stamp |-> d.stamp, buffer |-> buffer, output |-> output]
  BY <1>3
<1>5. QED
  BY <1>4 DEF d3, d2, d1

(* A packet that ends a frame, and one that continues it.                  *)
LEMMA StartKeeps ==
  ASSUME NEW p \in AudioPackets, AudioInv, audio' = Audio!StartFrame(audio, p),
         heard' = <<p>>, p.stamp = audioStamp', audioStamp' \in Nat,
         audioSent' \in Nat \ {0}, group' = << >>
  PROVE  AudioInv' /\ AudioIsWhole
<1>1. /\ audio'.last = p.seq /\ audio'.stamp = p.stamp /\ audio'.buffer = <<p>>
      /\ audio'.output = audio.buffer /\ ~audio'.drop
      /\ audio' = [drop |-> FALSE, last |-> p.seq, stamp |-> p.stamp, buffer |-> <<p>>,
                   output |-> audio.buffer]
  BY DEF Audio!StartFrame
<1>2. audio' \in AudioDecoders
  <2>1. /\ p.seq \in 0 .. SeqMod - 1 /\ p.stamp \in Nat /\ <<p>> \in Seq(AudioPackets)
        /\ audio.buffer \in Seq(AudioPackets) /\ FALSE \in BOOLEAN
    BY DEF AudioInv, AudioDecoders, AudioPackets
  <2>2. QED
    BY <1>1, <2>1 DEF AudioDecoders
<1>3. /\ heard' \in Seq(AudioPackets) /\ heard' # << >> /\ Len(heard') = 1
      /\ heard'[Len(heard')] = p
  OBVIOUS
<1>4. Consecutive(heard')
  BY <1>3 DEF Consecutive
<1>5. Len(audio'.buffer) <= MaxFrameSize + 1
  <2>1. Len(audio'.buffer) = 1 /\ MaxFrameSize \in Nat
    BY <1>1, MediaAssumption
  <2>2. QED
    BY <2>1
<1>6. Consecutive(heard)' <=> Consecutive(heard')
  BY DEF Consecutive
<1>7. AudioInv'
  BY <1>1, <1>2, <1>3, <1>4, <1>5, <1>6 DEF AudioInv
<1>8. AudioIsWhole
  BY <1>1 DEF AudioInv, AudioIsWhole
<1>9. QED
  BY <1>7, <1>8

(* A packet that goes on with a frame is kept, unless a gap before it or an*)
(* earlier one drops the frame.                                            *)
LEMMA ContinueKeeps ==
  ASSUME NEW p \in AudioPackets, AudioInv, audio' = Audio!ContinueFrame(audio, p),
         Len(audio.buffer) <= MaxFrameSize, audioStamp' \in Nat, audioStamp <= audioStamp',
         heard' = Append(heard, p), audioSent' \in Nat \ {0}, group' = << >>
  PROVE  AudioInv' /\ AudioIsWhole
<1> DEFINE gap == Audio!GapInside(audio, p)
           drop == audio.drop \/ gap
           buffer == IF gap THEN << >> ELSE IF audio.drop THEN audio.buffer ELSE Append(audio.buffer, p)
<1>1. audio' = [audio EXCEPT !.drop = drop, !.last = p.seq, !.output = << >>, !.buffer = buffer]
  BY DEF Audio!ContinueFrame
<1>2. gap <=> audio.last # 0 /\ p.seq # (audio.last + 1) % SeqMod
  BY DEF Audio!GapInside
<1>3. /\ audio \in AudioDecoders /\ heard \in Seq(AudioPackets)
      /\ audioStamp \in Nat /\ audio.stamp <= audioStamp
      /\ heard = << >> => audio.last = 0
      /\ heard # << >> => audio.last = heard[Len(heard)].seq
      /\ ~audio.drop => audio.buffer = heard /\ Consecutive(heard)
      /\ audio.drop => audio.buffer = << >> /\ ~Consecutive(heard)
  BY DEF AudioInv
<1>4. drop \in BOOLEAN /\ gap \in BOOLEAN
  BY DEF Audio!GapInside
<1>5. buffer \in Seq(AudioPackets)
  BY <1>3 DEF AudioDecoders
<1>6. Consecutive(heard') <=> ~drop
  <2>1. Consecutive(heard') <=>
          /\ Consecutive(heard)
          /\ heard # << >> /\ heard[Len(heard)].seq # 0
               => p.seq = (heard[Len(heard)].seq + 1) % SeqMod
    BY <1>3, ConsecutiveAppend
  <2>2. QED
    BY <1>2, <1>3, <2>1
<1>7. /\ ~drop => buffer = heard'
      /\ drop => buffer = << >>
  BY <1>3
<1>8. Len(buffer) <= MaxFrameSize + 1
  <2>1. Len(audio.buffer) \in Nat /\ Len(Append(audio.buffer, p)) = Len(audio.buffer) + 1
    BY <1>3 DEF AudioDecoders
  <2>2. MaxFrameSize \in Nat /\ Len(<< >>) = 0
    BY MediaAssumption
  <2>3. QED
    BY <2>1, <2>2
<1> HIDE DEF gap, drop, buffer
<1>9. audio' = [drop |-> drop, last |-> p.seq, stamp |-> audio.stamp, buffer |-> buffer,
                output |-> << >>]
  BY <1>1, <1>3, AudioParts, ZenonT(30)
<1>10. /\ audio'.drop = drop /\ audio'.last = p.seq /\ audio'.stamp = audio.stamp
       /\ audio'.buffer = buffer /\ audio'.output = << >>
  BY <1>9
<1>11. audio' \in AudioDecoders
  <2>1. p.seq \in 0 .. SeqMod - 1 /\ audio.stamp \in Nat /\ << >> \in Seq(AudioPackets)
    BY <1>3 DEF AudioDecoders, AudioPackets
  <2>2. QED
    BY <1>4, <1>5, <1>9, <2>1 DEF AudioDecoders
<1>12. /\ heard' \in Seq(AudioPackets) /\ heard' # << >> /\ heard'[Len(heard')] = p
  BY <1>3
<1>13. Consecutive(heard)' <=> Consecutive(heard')
  BY DEF Consecutive
<1>14. audio'.stamp <= audioStamp'
  <2>1. audio.stamp \in Nat
    BY <1>3 DEF AudioDecoders
  <2>2. QED
    BY <1>3, <1>10, <2>1
<1>15. AudioInv'
  BY <1>6, <1>7, <1>8, <1>10, <1>11, <1>12, <1>13, <1>14 DEF AudioInv
<1>16. AudioIsWhole
  BY <1>10 DEF AudioIsWhole
<1>17. QED
  BY <1>15, <1>16

(* A packet that is lost or empty changes nothing.                         *)
LEMMA SilenceKeeps ==
  ASSUME AudioInv, audio' = Audio!IgnoreEmpty(audio), heard' = heard,
         audioStamp' \in Nat, audioStamp <= audioStamp', audioSent' \in Nat \ {0}, group' = << >>
  PROVE  AudioInv' /\ AudioIsWhole
<1>1. audio' = [audio EXCEPT !.output = << >>] /\ audio \in AudioDecoders
  BY DEF Audio!IgnoreEmpty, AudioInv
<1>2. << >> \in Seq(AudioPackets)
  OBVIOUS
<1>3. /\ audio' \in AudioDecoders /\ audio'.output = << >>
      /\ audio'.drop = audio.drop /\ audio'.last = audio.last /\ audio'.stamp = audio.stamp
      /\ audio'.buffer = audio.buffer
  BY <1>1, <1>2 DEF AudioDecoders
<1>4. Consecutive(heard)' <=> Consecutive(heard)
  BY DEF Consecutive
<1>5. audio'.stamp <= audioStamp'
  <2>1. audio.stamp \in Nat /\ audio.stamp <= audioStamp /\ audioStamp \in Nat
    BY DEF AudioInv, AudioDecoders
  <2>2. QED
    BY <1>3, <2>1
<1>6. AudioInv'
  BY <1>3, <1>4, <1>5 DEF AudioInv
<1>7. AudioIsWhole
  BY <1>3 DEF AudioIsWhole
<1>8. QED
  BY <1>6, <1>7

(* The other streams move only while the audio depacketizer outputs nothing. *)
LEMMA AudioWaits ==
  ASSUME AudioInv, UNCHANGED audioVars, group' # << >> => audioSent = 0
  PROVE  AudioInv'
<1>1. audio' = audio /\ audioSent' = audioSent /\ audioStamp' = audioStamp /\ heard' = heard
  BY DEF audioVars
<1>2. Consecutive(heard)' <=> Consecutive(heard)
  BY <1>1 DEF Consecutive
<1>3. QED
  BY <1>1, <1>2 DEF AudioInv

(* Where audio waits it outputs nothing.                                   *)
LEMMA AudioSilent ==
  ASSUME AudioInv, UNCHANGED audioVars, audioSent = 0
  PROVE  AudioIsWhole
  BY DEF AudioInv, AudioIsWhole, audioVars

(* The audio invariant holds before the first packet.                      *)
LEMMA AudioInit ==
  ASSUME MediaInit
  PROVE  AudioInv
<1>1. /\ audio = Audio!NewDecoder /\ audioSent = 0 /\ audioStamp = 0 /\ heard = << >>
      /\ group = << >>
  BY DEF MediaInit
<1>2. /\ audio.drop = FALSE /\ audio.last = 0 /\ audio.stamp = 0 /\ audio.buffer = << >>
      /\ audio.output = << >>
      /\ audio = [drop |-> FALSE, last |-> 0, stamp |-> 0, buffer |-> << >>, output |-> << >>]
  BY <1>1 DEF Audio!NewDecoder
<1>3. audio \in AudioDecoders
  <2>1. 0 \in 0 .. SeqMod - 1 /\ FALSE \in BOOLEAN /\ << >> \in Seq(AudioPackets) /\ 0 \in Nat
    BY PathAssumption
  <2>2. QED
    BY <1>2, <2>1 DEF AudioDecoders
<1>4. Consecutive(heard) /\ heard \in Seq(AudioPackets)
  BY <1>1 DEF Consecutive
<1>5. Len(audio.buffer) <= MaxFrameSize + 1
  <2>1. Len(audio.buffer) = 0 /\ MaxFrameSize \in Nat
    BY <1>2, MediaAssumption
  <2>2. QED
    BY <2>1
<1>6. QED
  BY <1>1, <1>2, <1>3, <1>4, <1>5 DEF AudioInv

(* Every packet number is in the number space.                             *)
LEMMA NumberIs ==
  ASSUME NEW n \in Nat
  PROVE  (Start + n) % SeqMod \in 0 .. SeqMod - 1
<1>1. Start \in Nat /\ SeqMod \in Nat \ {0}
  BY PathAssumption
<1>2. Start + n \in Nat
  BY <1>1
<1>3. QED
  BY <1>1, <1>2, Division

(* It is kept by every audio packet, and a frame that is output is whole.  *)
LEMMA AudioStep ==
  ASSUME AudioInv, NEW next \in BOOLEAN, NEW empty \in BOOLEAN, NEW lost \in BOOLEAN,
         SendAudio(next, empty, lost)
  PROVE  AudioInv' /\ AudioIsWhole
<1> DEFINE p == [seq |-> (Start + audioSent') % SeqMod, stamp |-> audioStamp']
<1>1. /\ group' = << >> /\ audioSent' \in Nat \ {0}
      /\ audioStamp' \in Nat /\ audioStamp <= audioStamp'
  <2>1. audioSent \in Nat /\ audioStamp \in Nat
    BY DEF AudioInv
  <2>2. QED
    BY <2>1 DEF SendAudio, pictureVars
<1>2. p \in AudioPackets /\ p.stamp = audioStamp'
  <2>1. (Start + audioSent') % SeqMod \in 0 .. SeqMod - 1
    BY <1>1, NumberIs
  <2>2. QED
    BY <1>1, <2>1 DEF AudioPackets
<1>3. CASE lost \/ empty
  <2>1. audio' = Audio!IgnoreEmpty(audio) /\ heard' = heard
    BY <1>3 DEF SendAudio
  <2>2. QED
    BY <1>1, <2>1, SilenceKeeps
<1>4. CASE ~(lost \/ empty)
  <2>1. /\ audio' = Audio!InputRtp(audio, p)
        /\ heard' = IF Audio!EndsFrame(audio, p) THEN <<p>> ELSE Append(heard, p)
    BY <1>4 DEF SendAudio
  <2> HIDE DEF p
  <2>2. CASE Audio!EndsFrame(audio, p)
    <3>1. audio' = Audio!StartFrame(audio, p) /\ heard' = <<p>>
      BY <2>1, <2>2 DEF Audio!InputRtp
    <3>2. QED
      BY <1>1, <1>2, <3>1, StartKeeps
  <2>3. CASE ~Audio!EndsFrame(audio, p)
    <3>1. audio' = Audio!ContinueFrame(audio, p) /\ heard' = Append(heard, p)
      BY <2>1, <2>3 DEF Audio!InputRtp
    <3>2. Len(audio.buffer) <= MaxFrameSize
      <4>1. ~(Len(audio.buffer) > MaxFrameSize)
        BY <2>3 DEF Audio!EndsFrame
      <4>2. Len(audio.buffer) \in Nat /\ MaxFrameSize \in Nat
        BY MediaAssumption DEF AudioInv, AudioDecoders
      <4>3. QED
        BY <4>1, <4>2
    <3>3. QED
      BY <1>1, <1>2, <3>1, <3>2, ContinueKeeps
  <2>4. QED
    BY <2>2, <2>3
<1>5. QED
  BY <1>3, <1>4

(* It is kept by every step of the media.                                  *)
LEMMA AudioActions ==
  ASSUME AudioInv, MediaNext
  PROVE  AudioInv' /\ AudioIsWhole
<1>1. CASE SendVideo
  <2>1. audioSent = 0 /\ UNCHANGED audioVars
    BY <1>1 DEF SendVideo
  <2>2. QED
    BY <2>1, AudioWaits, AudioSilent
<1>2. ASSUME NEW next \in BOOLEAN, NEW empty \in BOOLEAN, NEW lost \in BOOLEAN,
             SendAudio(next, empty, lost)
      PROVE  AudioInv' /\ AudioIsWhole
  BY <1>2, AudioStep
<1>3. ASSUME NEW order \in Groups, NEW time \in FirstPts, ChooseOrder(order, time)
      PROVE  AudioInv' /\ AudioIsWhole
  <2>1. audioSent = 0 /\ UNCHANGED audioVars
    BY <1>3 DEF ChooseOrder
  <2>2. QED
    BY <2>1, AudioWaits, AudioSilent
<1>4. CASE Picture \/ PictureAgain \/ PictureLost
  <2>1. UNCHANGED audioVars /\ group # << >>
    BY <1>4 DEF Picture, PictureAgain, PictureLost, PicturesMayMove
  <2>2. audioSent = 0
    BY <2>1 DEF AudioInv
  <2>3. QED
    BY <2>1, <2>2, AudioWaits, AudioSilent
<1>5. QED
  BY <1>1, <1>2, <1>3, <1>4 DEF MediaNext

(* The audio invariant holds of every behaviour.                           *)
LEMMA AudioInvariant ==
  MediaSpec => []AudioInv
<1>1. MediaInit => AudioInv
  BY AudioInit
<1>2. AudioInv /\ [MediaNext]_mediaVars => AudioInv'
  <2> SUFFICES ASSUME AudioInv, [MediaNext]_mediaVars PROVE AudioInv'
    OBVIOUS
  <2>1. CASE MediaNext
    BY <2>1, AudioActions
  <2>2. CASE UNCHANGED mediaVars
    <3>1. UNCHANGED audioVars /\ group' = group
      BY <2>2 DEF mediaVars, pictureVars
    <3>2. group' # << >> => audioSent = 0
      BY <3>1 DEF AudioInv
    <3>3. QED
      BY <3>1, <3>2, AudioWaits
  <2>3. QED
    BY <2>1, <2>2
<1>3. QED
  BY <1>1, <1>2, PTL DEF MediaSpec

(***************************************************************************)
(* A video frame is one unit with all its fragments in order, an audio     *)
(* frame what was heard under its time stamp; an audio frame is dropped    *)
(* exactly when a gap shows in it.                                         *)
(***************************************************************************)
THEOREM NoFrameIsTorn == MediaSpec => NoTornMedia
<1>1. PathInv /\ AudioInv /\ [MediaNext]_mediaVars /\ NoTornFrame => NoTornFrame'
  <2> SUFFICES ASSUME PathInv, AudioInv, [MediaNext]_mediaVars, NoTornFrame PROVE NoTornFrame'
    OBVIOUS
  <2>1. UNCHANGED vars \/ Kept
    BY VideoActions
  <2>2. QED
    BY <2>1 DEF Kept, NoTornFrame, vars
<1>2. PathInv /\ AudioInv /\ [MediaNext]_mediaVars /\ NoTornFrame'
        => [NoTornFrame' /\ AudioIsWhole]_mediaVars
  BY AudioActions
<1>3. MediaInit => NoTornFrame
  <2> SUFFICES ASSUME MediaInit PROVE NoTornFrame
    OBVIOUS
  <2>1. decoder.frames = << >>
    BY NewDecoderIs DEF MediaInit, Init
  <2>2. DOMAIN decoder.frames = {}
    BY <2>1
  <2>3. QED
    BY <2>2 DEF NoTornFrame
<1>4. QED
  BY <1>1, <1>2, <1>3, PathInvariant, AudioInvariant, PTL DEF MediaSpec, NoTornMedia

-----------------------------------------------------------------------------
(* The decoding times.  First what the calls of the generator do.          *)
Generators ==
  [lastPts : Nat, lastDts : Nat, max : Nat, since : Nat, size : Nat, count : Nat,
   offset : Nat, sorter : SUBSET Nat, dts : Nat, known : BOOLEAN]

(* Learning the depth of the reordering: once learned it stays.            *)
LEMMA LearnIs ==
  ASSUME NEW g \in Generators, NEW pts \in Nat
  PROVE  /\ Dts!Learn(g, pts) \in Generators
         /\ Dts!Learn(g, pts).sorter = g.sorter /\ Dts!Learn(g, pts).lastDts = g.lastDts
         /\ g.size # 0 => Dts!Learn(g, pts) = g
<1>1. CASE g.size # 0
  BY <1>1 DEF Dts!Learn
<1>2. CASE ~(g.size # 0)
  <2> DEFINE ahead == pts > g.max
             ends == ahead /\ g.since # 0
             learns == ends /\ g.count > 0
             a == IF learns THEN g.since ELSE 0
             b == IF learns THEN (pts - g.max) \div 2 ELSE g.offset
             c == IF ends THEN g.count + 1 ELSE g.count
             d == IF ahead THEN pts ELSE g.max
             e == IF ahead THEN 1 ELSE g.since + 1
  <2>1. Dts!Learn(g, pts) =
          [g EXCEPT !.size = a, !.offset = b, !.count = c, !.max = d, !.since = e]
    BY <1>2 DEF Dts!Learn
  <2>2. a \in Nat /\ b \in Nat /\ c \in Nat /\ d \in Nat /\ e \in Nat
    <3>1. g.max \in Nat /\ g.since \in Nat /\ g.count \in Nat /\ g.offset \in Nat
      BY DEF Generators
    <3>2. pts > g.max => (pts - g.max) \div 2 \in Nat
      BY <3>1
    <3>3. QED
      BY <3>1, <3>2
  <2> HIDE DEF a, b, c, d, e
  <2>3. QED
    BY <1>2, <2>1, <2>2 DEF Generators
<1>3. QED
  BY <1>1, <1>2

(* A set of times has an earliest one.                                     *)
LEMMA EarliestIs ==
  ASSUME NEW w \in SUBSET Nat, w # {}
  PROVE  Dts!Earliest(w) \in w /\ \A s \in w : Dts!Earliest(w) <= s
<1>1. PICK x \in w : \A y \in w : x <= y
  BY LeastElement
<1>2. QED
  BY <1>1 DEF Dts!Earliest

(* The instance counts what waits as this module does.                     *)
LEMMA CountsAlike ==
  ASSUME NEW S
  PROVE  Dts!Cardinality(S) = Cardinality(S)
  BY Zenon DEF Dts!Cardinality, Cardinality

(* What becomes of a generator g that getDts is asked with, h: the time is  *)
(* the last one again; or there is no reordering, and it is shown; or it    *)
(* joins those that wait, and the earliest leaves once they are too many.   *)
SameDepth(g, h) == h.size = g.size /\ h.offset = g.offset
Waiting(g, pts) == g.sorter \union {pts}
Repeats(g, h, pts) ==
  /\ pts = g.lastPts /\ SameDepth(g, h) /\ h.sorter = g.sorter
  /\ h.lastDts = g.lastDts /\ (h.known => g.lastDts # 0)
  /\ h.dts = IF h.known THEN g.lastDts ELSE pts
Straight(g, h, pts) ==
  /\ pts # g.lastPts /\ g.size = 1 /\ SameDepth(g, h) /\ h.sorter = g.sorter
  /\ h.known /\ h.dts = pts /\ h.lastDts = pts
Waits(g, h, pts) ==
  /\ pts # g.lastPts /\ g.size # 1 /\ (g.size # 0 => SameDepth(g, h))
  /\ h.sorter = Waiting(g, pts)
  /\ ~h.known /\ h.dts = pts /\ h.lastDts = g.lastDts
  /\ g.size # 0 => ~(Cardinality(Waiting(g, pts)) > g.size)
Leaves(g, h, pts, least) ==
  /\ pts # g.lastPts /\ g.size # 1 /\ (g.size # 0 => SameDepth(g, h))
  /\ h.size # 0 /\ Cardinality(Waiting(g, pts)) > h.size
  /\ \A s \in Waiting(g, pts) : least <= s
  /\ h.sorter = Waiting(g, pts) \ {least}
  /\ h.known /\ h.dts = Dts!Earlier(least + h.offset, pts) /\ h.lastDts = h.dts

(* What getDts does with a new time, when pictures are reordered.          *)
LEMMA SortIs ==
  ASSUME NEW g \in Generators, NEW pts \in Nat
  PROVE  /\ Dts!Sort(g, pts) \in Generators
         /\ SameDepth(g, Dts!Sort(g, pts)) /\ Dts!Sort(g, pts).lastDts = g.lastDts
         /\ \/ /\ g.size = 0 \/ ~(Cardinality(Waiting(g, pts)) > g.size)
               /\ Dts!Sort(g, pts).sorter = Waiting(g, pts) /\ ~Dts!Sort(g, pts).known
            \/ /\ g.size # 0 /\ Cardinality(Waiting(g, pts)) > g.size
               /\ \E least \in Waiting(g, pts) :
                    /\ \A s \in Waiting(g, pts) : least <= s
                    /\ Dts!Sort(g, pts).sorter = Waiting(g, pts) \ {least}
                    /\ Dts!Sort(g, pts).known
                    /\ Dts!Sort(g, pts).dts = Dts!Earlier(least + g.offset, pts)
<1> DEFINE w == Waiting(g, pts)
           leaves == g.size # 0 /\ Cardinality(w) > g.size
           least == Dts!Earliest(w)
           dts == Dts!Earlier(least + g.offset, pts)
<1>1. w \in SUBSET Nat /\ w # {} /\ g.offset \in Nat
  BY DEF Waiting, Generators
<1>2. least \in w /\ \A s \in w : least <= s
  BY <1>1, EarliestIs
<1>3. Dts!Sort(g, pts) =
        IF leaves THEN [g EXCEPT !.sorter = w \ {least}, !.known = TRUE, !.dts = dts]
        ELSE [g EXCEPT !.sorter = w, !.known = FALSE]
  BY CountsAlike DEF Dts!Sort, Waiting
<1> HIDE DEF least
<1>4. dts \in Nat
  BY <1>1, <1>2 DEF Dts!Earlier
<1> HIDE DEF w, dts
<1>5. CASE leaves
  <2>1. Dts!Sort(g, pts) = [g EXCEPT !.sorter = w \ {least}, !.known = TRUE, !.dts = dts]
    BY <1>3, <1>5
  <2>2. w \ {least} \in SUBSET Nat
    BY <1>1
  <2>3. /\ Dts!Sort(g, pts) \in Generators
        /\ Dts!Sort(g, pts).sorter = w \ {least} /\ Dts!Sort(g, pts).known
        /\ Dts!Sort(g, pts).dts = dts
        /\ SameDepth(g, Dts!Sort(g, pts)) /\ Dts!Sort(g, pts).lastDts = g.lastDts
    BY <2>1, <2>2, <1>4 DEF Generators, SameDepth
  <2>4. QED
    BY <2>3, <1>2, <1>5 DEF w, dts
<1>6. CASE ~leaves
  <2>1. Dts!Sort(g, pts) = [g EXCEPT !.sorter = w, !.known = FALSE]
    BY <1>3, <1>6
  <2>2. /\ Dts!Sort(g, pts) \in Generators
        /\ Dts!Sort(g, pts).sorter = w /\ ~Dts!Sort(g, pts).known
        /\ SameDepth(g, Dts!Sort(g, pts)) /\ Dts!Sort(g, pts).lastDts = g.lastDts
    BY <2>1, <1>1 DEF Generators, SameDepth
  <2>3. QED
    BY <2>2, <1>6 DEF w
<1>7. QED
  BY <1>5, <1>6

(* getDts does one of the four.                                            *)
LEMMA GetDtsIs ==
  ASSUME NEW g \in Generators, NEW pts \in Nat
  PROVE  /\ Dts!GetDts(g, pts) \in Generators /\ Dts!GetDts(g, pts).lastPts = pts
         /\ \/ Repeats(g, Dts!GetDts(g, pts), pts)
            \/ Straight(g, Dts!GetDts(g, pts), pts)
            \/ Waits(g, Dts!GetDts(g, pts), pts)
            \/ \E least \in Waiting(g, pts) : Leaves(g, Dts!GetDts(g, pts), pts, least)
<1> DEFINE again == pts = g.lastPts
           guess == IF again THEN [g EXCEPT !.dts = g.lastDts, !.known = g.lastDts # 0]
                    ELSE Dts!Guess(g, pts)
           lastDts == IF guess.known /\ ~again THEN guess.dts ELSE g.lastDts
           dts == IF guess.known THEN guess.dts ELSE pts
           h == Dts!GetDts(g, pts)
<1>1. h = [guess EXCEPT !.lastPts = pts, !.lastDts = lastDts, !.dts = dts]
  BY DEF Dts!GetDts
<1> HIDE DEF h
<1>2. ASSUME guess \in Generators
      PROVE  /\ h \in Generators /\ h.lastPts = pts /\ h.known = guess.known
             /\ h.sorter = guess.sorter /\ SameDepth(guess, h)
             /\ h.lastDts = lastDts /\ h.dts = dts
  <2>1. guess.dts \in Nat /\ g.lastDts \in Nat
    BY <1>2 DEF Generators
  <2>2. dts \in Nat /\ lastDts \in Nat
    BY <2>1
  <2> HIDE DEF guess, dts, lastDts
  <2>3. QED
    BY <1>1, <1>2, <2>2 DEF Generators, SameDepth
<1>3. CASE again
  <2>1. guess = [g EXCEPT !.dts = g.lastDts, !.known = g.lastDts # 0]
    BY <1>3
  <2>2. /\ guess \in Generators /\ guess.sorter = g.sorter /\ SameDepth(g, guess)
        /\ guess.dts = g.lastDts /\ guess.known = (g.lastDts # 0)
    BY <2>1 DEF Generators, SameDepth
  <2>3. lastDts = g.lastDts /\ dts = IF guess.known THEN g.lastDts ELSE pts
    BY <1>3, <2>2
  <2> HIDE DEF guess, dts, lastDts
  <2>4. Repeats(g, h, pts)
    BY <1>2, <1>3, <2>2, <2>3 DEF Repeats, SameDepth
  <2>5. QED
    BY <1>2, <2>2, <2>4 DEF h
<1>4. CASE ~again /\ g.size = 1
  <2>1. guess = [g EXCEPT !.dts = pts, !.known = TRUE]
    BY <1>4 DEF Dts!Guess
  <2>2. /\ guess \in Generators /\ guess.sorter = g.sorter /\ SameDepth(g, guess)
        /\ guess.dts = pts /\ guess.known
    BY <2>1 DEF Generators, SameDepth
  <2>3. lastDts = pts /\ dts = pts
    BY <1>4, <2>2
  <2> HIDE DEF guess, dts, lastDts
  <2>4. Straight(g, h, pts)
    BY <1>2, <1>4, <2>2, <2>3 DEF Straight, SameDepth
  <2>5. QED
    BY <1>2, <2>2, <2>4 DEF h
<1>5. CASE ~again /\ g.size # 1
  <2> DEFINE l == Dts!Learn(g, pts)
  <2>1. l \in Generators /\ l.sorter = g.sorter /\ l.lastDts = g.lastDts /\ (g.size # 0 => l = g)
    BY LearnIs
  <2>2. guess = Dts!Sort(l, pts)
    BY <1>5 DEF Dts!Guess
  <2>3. lastDts = (IF guess.known THEN guess.dts ELSE g.lastDts)
    BY <1>5
  <2> HIDE DEF l, guess, lastDts
  <2>4. /\ guess \in Generators /\ SameDepth(l, guess)
        /\ \/ /\ guess.sorter = Waiting(l, pts) /\ ~guess.known
              /\ l.size # 0 => ~(Cardinality(Waiting(l, pts)) > l.size)
           \/ /\ l.size # 0 /\ Cardinality(Waiting(l, pts)) > l.size
              /\ \E least \in Waiting(l, pts) :
                   /\ \A s \in Waiting(l, pts) : least <= s
                   /\ guess.sorter = Waiting(l, pts) \ {least}
                   /\ guess.known
                   /\ guess.dts = Dts!Earlier(least + l.offset, pts)
    BY <2>1, <2>2, SortIs
  <2>5. Waiting(l, pts) = Waiting(g, pts)
    BY <2>1 DEF Waiting
  <2>6. g.size # 0 => SameDepth(g, h)
    BY <1>2, <2>1, <2>4 DEF SameDepth
  <2>7. CASE /\ guess.sorter = Waiting(l, pts) /\ ~guess.known
             /\ l.size # 0 => ~(Cardinality(Waiting(l, pts)) > l.size)
    <3>1. Waits(g, h, pts)
      BY <1>2, <2>1, <1>5, <2>3, <2>4, <2>5, <2>6, <2>7 DEF Waits
    <3>2. QED
      BY <1>2, <2>4, <3>1 DEF h
  <2>8. ASSUME l.size # 0, Cardinality(Waiting(l, pts)) > l.size,
               NEW least \in Waiting(l, pts), \A s \in Waiting(l, pts) : least <= s,
               guess.sorter = Waiting(l, pts) \ {least}, guess.known,
               guess.dts = Dts!Earlier(least + l.offset, pts)
        PROVE  \E some \in Waiting(g, pts) : Leaves(g, h, pts, some)
    <3>1. h.size = l.size /\ h.offset = l.offset
      BY <1>2, <2>4 DEF SameDepth
    <3>2. Leaves(g, h, pts, least)
      BY <1>2, <1>5, <2>3, <2>4, <2>5, <2>6, <2>8, <3>1 DEF Leaves
    <3>3. QED
      BY <2>5, <3>2
  <2>9. QED
    BY <1>2, <2>4, <2>7, <2>8 DEF h
<1>6. QED
  BY <1>3, <1>4, <1>5

-----------------------------------------------------------------------------
(* When pictures are shown.                                                *)
LEMMA TimesGoUp ==
  ASSUME NEW t \in Nat \ {0}, NEW x \in Int, NEW y \in Int
  PROVE  /\ t * x \in Int /\ t * y \in Int
         /\ x < y => t * x < t * y /\ t * x + t <= t * y
         /\ x <= y => t * x <= t * y
<1>1. ASSUME x <= y
      PROVE  t * x <= t * y
  <2>1. t * y = t * x + t * (y - x)
    BY Z3
  <2>2. t * (y - x) >= 0
    BY <1>1, Z3
  <2>3. QED
    BY <2>1, <2>2
<1>2. ASSUME x < y
      PROVE  t * x + t <= t * y
  <2>1. t * y = t * x + t + t * (y - x - 1)
    BY Z3
  <2>2. t * (y - x - 1) >= 0
    BY <1>2, Z3
  <2>3. QED
    BY <2>1, <2>2
<1>3. t * x \in Int /\ t * y \in Int
  OBVIOUS
<1>4. QED
  BY <1>1, <1>2, <1>3

(* A picture after the first is one of a group, and shown in its turn.     *)
Chosen == group \in Groups /\ group # << >> /\ first \in Nat

LEMMA TurnIs ==
  ASSUME Chosen, NEW n \in Nat, n # 0
  PROVE  \E q \in Nat, j \in 1 .. Len(group) :
           /\ n = Len(group) * q + j /\ group[j] \in 1 .. Len(group)
           /\ 2 * (j - 1 - group[j]) < Len(group)
           /\ ShownAt(n) = first + PictureTime * (Len(group) * q + group[j])
<1> DEFINE size == Len(group)
           q == (n - 1) \div size
           j == ((n - 1) % size) + 1
<1>1. group \in Seq(Nat) /\ size \in Nat \ {0} /\ DOMAIN group = 1 .. size
  BY MediaAssumption DEF Chosen
<1>2. n - 1 \in Nat
  OBVIOUS
<1>3. q \in Nat /\ j \in 1 .. size /\ n - 1 = size * q + (j - 1)
  <2> DEFINE r == (n - 1) % size
  <2>1. r \in 0 .. size - 1 /\ q \in Nat /\ n - 1 = size * q + r
    BY <1>1, <1>2, Division
  <2> HIDE DEF r, q, size
  <2>2. r + 1 \in 1 .. size /\ (r + 1) - 1 = r
    BY <1>1, <2>1
  <2>3. QED
    BY <2>1, <2>2 DEF r
<1>4. group[j] \in 1 .. size /\ 2 * (j - 1 - group[j]) < size
  BY <1>1, <1>3, MediaAssumption DEF Chosen
<1>5. ShownAt(n) = first + PictureTime * (n - j + group[j])
  BY DEF ShownAt
<1> HIDE DEF q, j, size
<1>6. size * q \in Nat /\ n = size * q + j /\ n - j = size * q
  BY <1>1, <1>3
<1>7. ShownAt(n) = first + PictureTime * (size * q + group[j])
  BY <1>5, <1>6
<1>8. QED
  BY <1>3, <1>4, <1>6, <1>7 DEF size

(* No two pictures of a group have the same turn.                          *)
LEMMA GroupIsInjective ==
  ASSUME Chosen, NEW i \in 1 .. Len(group), NEW j \in 1 .. Len(group), i # j
  PROVE  group[i] # group[j]
<1> DEFINE turns == 1 .. Len(group)
<1>1. group \in Seq(Nat) /\ {group[k] : k \in DOMAIN group} = turns
  BY MediaAssumption DEF Chosen
<1>2. DOMAIN group = turns /\ Len(group) \in Nat
  BY <1>1
<1>3. IsFiniteSet(turns)
  BY <1>2, FS_Interval
<1> HIDE DEF turns
<1>4. group \in [turns -> turns]
  BY <1>1, <1>2
<1>5. group \in Surjection(turns, turns)
  BY <1>1, <1>2, <1>4 DEF Surjection
<1>6. group \in Injection(turns, turns)
  BY <1>3, <1>5, FS_SurjSameCardinalityImpliesInj
<1>7. QED
  BY <1>2, <1>4, <1>6 DEF Injection, IsInjective, turns

(* A time is a number.                                                     *)
LEMMA ShownAtIs ==
  ASSUME Chosen, NEW n \in Nat
  PROVE  ShownAt(n) \in Nat
<1>1. Len(group) \in Nat \ {0} /\ PictureTime \in Nat /\ first \in Nat
  BY MediaAssumption DEF Chosen
<1>2. CASE n = 0
  BY <1>1, <1>2 DEF ShownAt
<1>3. CASE n # 0
  <2>1. PICK q \in Nat, j \in 1 .. Len(group) :
          /\ group[j] \in 1 .. Len(group)
          /\ ShownAt(n) = first + PictureTime * (Len(group) * q + group[j])
    BY <1>3, TurnIs
  <2>2. Len(group) * q + group[j] \in Nat
    BY <1>1, <2>1
  <2>3. QED
    BY <1>1, <2>1, <2>2
<1>4. QED
  BY <1>2, <1>3

(* The pictures sent before picture n of a group are shown no later than    *)
(* the groups before it end, but for those of its own group.               *)
LEMMA ShownBefore ==
  ASSUME Chosen, NEW q \in Nat, NEW i \in 0 .. Len(group) * q
  PROVE  \E k \in 0 .. Len(group) * q : ShownAt(i) = first + PictureTime * k
<1> DEFINE size == Len(group)
<1>1. size \in Nat \ {0} /\ PictureTime \in Nat \ {0} /\ first \in Nat /\ size * q \in Nat
  BY MediaAssumption DEF Chosen
<1>2. CASE i = 0
  <2>1. ShownAt(i) = first + PictureTime * 0
    BY <1>1, <1>2 DEF ShownAt
  <2>2. QED
    BY <1>1, <2>1
<1>3. CASE i # 0
  <2>1. i \in Nat
    BY <1>1
  <2>2. PICK p \in Nat, j \in 1 .. size :
          /\ i = size * p + j /\ group[j] \in 1 .. size
          /\ ShownAt(i) = first + PictureTime * (size * p + group[j])
    BY <1>3, <2>1, TurnIs
  <2>3. size * p \in Nat /\ size * p < size * q
    BY <1>1, <2>2
  <2>4. p < q
    <3>1. ~(q <= p)
      BY <1>1, <2>3, TimesGoUp
    <3>2. QED
      BY <3>1
  <2>5. size * p + size <= size * q
    BY <1>1, <2>4, TimesGoUp
  <2>6. size * p + group[j] \in 0 .. size * q
    BY <1>1, <2>2, <2>3, <2>5
  <2>7. QED
    BY <2>2, <2>6
<1>4. QED
  BY <1>2, <1>3

TimesBefore(n) == {ShownAt(i) : i \in 0 .. n - 1}

(* Of more pictures than a group has, the earliest is so early that the     *)
(* offset cannot take it past a picture sent after them.                   *)
LEMMA EarliestIsEarly ==
  ASSUME Chosen, NEW n \in Nat, NEW w \in SUBSET TimesBefore(n), IsFiniteSet(w),
         Cardinality(w) > Len(group), NEW least \in w, \A s \in w : least <= s,
         NEW offset \in Nat, 2 * offset <= PictureTime * Len(group)
  PROVE  least + offset < ShownAt(n)
<1> DEFINE size == Len(group)
<1>1. size \in Nat \ {0} /\ PictureTime \in Nat \ {0} /\ first \in Nat
  BY MediaAssumption DEF Chosen
<1>2. n # 0
  <2>1. TimesBefore(0) = {}
    BY DEF TimesBefore
  <2>2. QED
    BY <2>1
<1>3. PICK q \in Nat, j \in 1 .. size :
        /\ n = size * q + j /\ group[j] \in 1 .. size
        /\ 2 * (j - 1 - group[j]) < size
        /\ ShownAt(n) = first + PictureTime * (size * q + group[j])
  BY <1>2, TurnIs
<1>4. size * q \in Nat
  BY <1>1
<1> DEFINE base == size * q
           low == base - size + j
           Own == {ShownAt(i) : i \in base + 1 .. n - 1}
           Old == {first + PictureTime * k : k \in low .. base}
<1>5. IsFiniteSet(Own) /\ Cardinality(Own) <= j - 1 /\ Cardinality(Own) \in Nat
  <2>1. IsFiniteSet(base + 1 .. n - 1) /\ Cardinality(base + 1 .. n - 1) = j - 1
    <3>1. base + 1 \in Int /\ n - 1 \in Int
      BY <1>4
    <3>2. /\ IsFiniteSet(base + 1 .. n - 1)
          /\ Cardinality(base + 1 .. n - 1) =
               IF base + 1 > n - 1 THEN 0 ELSE (n - 1) - (base + 1) + 1
      BY <3>1, FS_Interval
    <3>3. QED
      BY <1>1, <1>3, <1>4, <3>2
  <2>2. IsFiniteSet(Own) /\ Cardinality(Own) <= Cardinality(base + 1 .. n - 1)
    <3> DEFINE f == [i \in base + 1 .. n - 1 |-> ShownAt(i)]
    <3>1. f \in Surjection(base + 1 .. n - 1, Own)
      BY DEF Surjection
    <3> HIDE DEF f, Own
    <3>2. QED
      BY <2>1, <3>1, FS_Surjection
  <2>3. QED
    BY <2>1, <2>2, FS_CardinalityType
<1>6. IsFiniteSet(Old) /\ Cardinality(Old) <= size - j + 1 /\ Cardinality(Old) \in Nat
  <2>1. IsFiniteSet(low .. base) /\ Cardinality(low .. base) = size - j + 1
    <3>1. low \in Int /\ base \in Int
      BY <1>1, <1>4
    <3>2. /\ IsFiniteSet(low .. base)
          /\ Cardinality(low .. base) = IF low > base THEN 0 ELSE base - low + 1
      BY <3>1, FS_Interval
    <3>3. QED
      BY <1>1, <1>3, <1>4, <3>2
  <2>2. IsFiniteSet(Old) /\ Cardinality(Old) <= Cardinality(low .. base)
    <3> DEFINE f == [k \in low .. base |-> first + PictureTime * k]
    <3>1. f \in Surjection(low .. base, Old)
      BY DEF Surjection
    <3> HIDE DEF f, Old
    <3>2. QED
      BY <2>1, <3>1, FS_Surjection
  <2>3. QED
    BY <2>1, <2>2, FS_CardinalityType
<1>7. IsFiniteSet(Own \union Old) /\ Cardinality(Own \union Old) <= size
  <2> HIDE DEF Own, Old
  <2>1. /\ IsFiniteSet(Own \union Old)
        /\ Cardinality(Own \union Old) =
             Cardinality(Own) + Cardinality(Old) - Cardinality(Own \intersect Old)
    BY <1>5, <1>6, FS_Union
  <2>2. Cardinality(Own \intersect Old) \in Nat
    BY <1>5, FS_Intersection, FS_CardinalityType
  <2>3. QED
    BY <1>1, <1>3, <1>5, <1>6, <2>1, <2>2
<1>8. least <= first + PictureTime * (low - 1)
  <2> SUFFICES ASSUME ~(least <= first + PictureTime * (low - 1)) PROVE FALSE
    OBVIOUS
  <2>1. ASSUME NEW s \in w
        PROVE  s \in Own \union Old
    <3>1. PICK i \in 0 .. n - 1 : s = ShownAt(i)
      BY DEF TimesBefore
    <3>2. CASE i > base
      BY <1>4, <3>1, <3>2
    <3>3. CASE ~(i > base)
      <4>1. i \in 0 .. size * q
        BY <1>4, <3>3
      <4>2. PICK k \in 0 .. size * q : s = first + PictureTime * k
        BY <3>1, <4>1, ShownBefore
      <4>3. low - 1 \in Int /\ k \in Int /\ PictureTime * k \in Int /\ PictureTime * (low - 1) \in Int
        BY <1>1, <1>4
      <4>4. least \in Int /\ s \in Int
        BY ShownAtIs DEF TimesBefore
      <4>5. first + PictureTime * (low - 1) < first + PictureTime * k
        BY <1>1, <4>2, <4>3, <4>4
      <4>6. ~(k <= low - 1)
        <5> HIDE DEF low
        <5>1. k <= low - 1 => PictureTime * k <= PictureTime * (low - 1)
          BY <1>1, <4>3, TimesGoUp
        <5>2. QED
          BY <1>1, <4>3, <4>5, <5>1
      <4>7. k \in low .. base
        BY <1>1, <1>4, <4>6
      <4>8. QED
        BY <4>2, <4>7
    <3>4. QED
      BY <3>2, <3>3
  <2>2. w \in SUBSET (Own \union Old)
    BY <2>1
  <2> HIDE DEF Own, Old
  <2>3. Cardinality(w) <= Cardinality(Own \union Old)
    BY <1>7, <2>2, FS_Subset
  <2>4. Cardinality(w) \in Nat /\ Cardinality(Own \union Old) \in Nat
    BY <1>7, FS_CardinalityType
  <2>5. QED
    BY <1>1, <1>7, <2>3, <2>4
<1>9. 2 * (low - 1) + size < 2 * (base + group[j])
  BY <1>1, <1>3, <1>4
<1>10. PictureTime * (2 * (low - 1) + size) < PictureTime * (2 * (base + group[j]))
  BY <1>1, <1>3, <1>4, <1>9, TimesGoUp, SMTT(30)
<1>11. /\ PictureTime * (2 * (low - 1) + size) =
            2 * (PictureTime * (low - 1)) + PictureTime * size
       /\ PictureTime * (2 * (base + group[j])) = 2 * (PictureTime * (base + group[j]))
  <2>1. low \in Int /\ base \in Int /\ group[j] \in Int
    BY <1>1, <1>3, <1>4
  <2> HIDE DEF low, base
  <2>2. QED
    BY <1>1, <2>1, Z3
<1> HIDE DEF low, base
<1>12. /\ PictureTime * (low - 1) \in Int /\ PictureTime * (base + group[j]) \in Int
       /\ PictureTime * size \in Int /\ ShownAt(n) = first + PictureTime * (base + group[j])
  <2>1. low \in Int /\ base \in Int /\ group[j] \in Int
    BY <1>1, <1>3, <1>4 DEF low, base
  <2>2. QED
    BY <1>1, <1>3, <2>1 DEF base
<1>13. least \in Int
  BY ShownAtIs DEF TimesBefore
<1>14. QED
  BY <1>1, <1>8, <1>10, <1>11, <1>12, <1>13

(* No two pictures are shown at the same time.                             *)
LEMMA ShownOnce ==
  ASSUME Chosen, NEW n \in Nat, NEW i \in 0 .. n - 1
  PROVE  ShownAt(i) # ShownAt(n)
<1> DEFINE size == Len(group)
<1>1. size \in Nat \ {0} /\ PictureTime \in Nat \ {0} /\ first \in Nat
  BY MediaAssumption DEF Chosen
<1>2. PICK q \in Nat, j \in 1 .. size :
        /\ n = size * q + j /\ group[j] \in 1 .. size
        /\ ShownAt(n) = first + PictureTime * (size * q + group[j])
  <2>1. n # 0
    OBVIOUS
  <2>2. QED
    BY <2>1, TurnIs
<1>3. size * q + group[j] \in Nat \ {0}
  BY <1>1, <1>2
<1>4. CASE i = 0
  <2>1. PictureTime * 0 < PictureTime * (size * q + group[j])
    BY <1>1, <1>3, TimesGoUp
  <2>2. QED
    BY <1>1, <1>2, <1>3, <1>4, <2>1 DEF ShownAt
<1>5. CASE i # 0
  <2>1. i \in Nat
    OBVIOUS
  <2>2. PICK p \in Nat, k \in 1 .. size :
          /\ i = size * p + k /\ group[k] \in 1 .. size
          /\ ShownAt(i) = first + PictureTime * (size * p + group[k])
    BY <1>5, <2>1, TurnIs
  <2>3. size * q \in Nat /\ size * p \in Nat
    BY <1>1
  <2>4. p < q => size * p + size <= size * q
    BY <1>1, TimesGoUp
  <2>5. q < p => size * q + size <= size * p
    BY <1>1, TimesGoUp
  <2>6. size * p + group[k] # size * q + group[j]
    <3>1. p = q => k # j
      BY <1>2, <2>2
    <3>2. k # j => group[k] # group[j]
      BY GroupIsInjective
    <3>3. CASE p = q
      BY <1>2, <2>2, <2>3, <3>1, <3>2, <3>3
    <3>4. CASE p # q
      BY <1>1, <1>2, <2>2, <2>3, <2>4, <2>5, <3>4, SMTT(30)
    <3>5. QED
      BY <3>3, <3>4
  <2>7. size * p + group[k] \in Nat
    BY <2>2, <2>3
  <2> DEFINE x == size * p + group[k]
             y == size * q + group[j]
  <2>8. x \in Nat /\ y \in Nat /\ x # y
    BY <1>3, <2>6, <2>7
  <2> HIDE DEF x, y
  <2>9. PictureTime * x # PictureTime * y /\ PictureTime * x \in Int /\ PictureTime * y \in Int
    <3>1. CASE x < y
      BY <1>1, <2>8, <3>1, TimesGoUp
    <3>2. CASE y < x
      BY <1>1, <2>8, <3>2, TimesGoUp
    <3>3. QED
      BY <2>8, <3>1, <3>2
  <2>10. QED
    BY <1>1, <1>2, <2>2, <2>9 DEF x, y
<1>6. QED
  BY <1>4, <1>5

(* Without reordering every picture is shown after those before it.        *)
LEMMA ShownInOrder ==
  ASSUME Chosen, Len(group) = 1, NEW i \in Nat, NEW n \in Nat, i < n
  PROVE  ShownAt(i) < ShownAt(n)
<1>1. PictureTime \in Nat \ {0} /\ first \in Nat
  BY MediaAssumption DEF Chosen
<1>2. ASSUME NEW k \in Nat PROVE ShownAt(k) = first + PictureTime * k
  <2>1. CASE k = 0
    BY <1>1, <2>1 DEF ShownAt
  <2>2. CASE k # 0
    <3>1. PICK q \in Nat, j \in 1 .. Len(group) :
            /\ k = Len(group) * q + j /\ group[j] \in 1 .. Len(group)
            /\ ShownAt(k) = first + PictureTime * (Len(group) * q + group[j])
      BY <2>2, TurnIs
    <3>2. j = 1 /\ group[j] = 1 /\ Len(group) * q = q
      BY <3>1
    <3>3. Len(group) * q + group[j] = k
      BY <3>1, <3>2
    <3>4. QED
      BY <3>1, <3>3
  <2>3. QED
    BY <2>1, <2>2
<1>3. PictureTime * i < PictureTime * n /\ PictureTime * i \in Int /\ PictureTime * n \in Int
  BY <1>1, TimesGoUp
<1>4. QED
  BY <1>1, <1>2, <1>3

-----------------------------------------------------------------------------
(* The invariant of the decoding times. Once a time is known and depth and  *)
(* offset are those of a whole group, every picture still to come is shown  *)
(* after the last time; and with reordering the last time belongs to a      *)
(* picture, by now gone, that is shown before all that wait or come.       *)
Settled(g) == g.size = Len(group) /\ 2 * g.offset <= PictureTime * Len(group)
TimesBegun(g) == g.known \/ g.lastDts # 0
AllComeAfter(time, n) == \A i \in Nat : i >= n => time < ShownAt(i)
TimesFollow(g, n) ==
  /\ AllComeAfter(g.lastDts, n)
  /\ g.size # 1 =>
       \E m \in Nat : /\ g.lastDts <= m + g.offset
                      /\ \A s \in g.sorter : m < s
                      /\ AllComeAfter(m, n)

Decoding(g, n) ==
  /\ g \in Generators /\ IsFiniteSet(g.sorter) /\ g.sorter \subseteq TimesBefore(n)
  /\ g.lastDts <= g.lastPts /\ g.dts <= g.lastPts /\ (g.known => g.dts = g.lastDts)
  /\ TimesBegun(g) =>
       /\ g.size # 0 /\ (g.size # 1 => Cardinality(g.sorter) >= g.size)
       /\ Settled(g) => TimesFollow(g, n)

GoesUp(g, h) ==
  /\ h.dts <= h.lastPts
  /\ Settled(g) /\ g.known /\ h.lastPts # g.lastPts => g.dts < h.dts

(* A picture that is lost changes nothing.                                 *)
LEMMA DecodingLater ==
  ASSUME Chosen, NEW n \in Nat, NEW g, Decoding(g, n)
  PROVE  Decoding(g, n + 1)
<1>1. TimesBefore(n) \subseteq TimesBefore(n + 1)
  BY DEF TimesBefore
<1>2. \A time : AllComeAfter(time, n) => AllComeAfter(time, n + 1)
  BY DEF AllComeAfter
<1>3. TimesFollow(g, n) => TimesFollow(g, n + 1)
  BY <1>2 DEF TimesFollow
<1>4. QED
  BY <1>1, <1>3 DEF Decoding

(* Asking again for the same picture changes nothing that matters.         *)
LEMMA DecodingAgain ==
  ASSUME NEW n \in Nat, NEW g, Decoding(g, n), NEW h \in Generators,
         h.lastPts = g.lastPts, Repeats(g, h, g.lastPts)
  PROVE  Decoding(h, n) /\ GoesUp(g, h)
<1>1. g \in Generators /\ g.lastDts \in Nat /\ g.lastPts \in Nat
  BY DEF Decoding, Generators
<1>2. TimesBegun(h) => TimesBegun(g)
  BY DEF TimesBegun, Repeats
<1>3. (Settled(h) => Settled(g)) /\ (TimesFollow(g, n) => TimesFollow(h, n))
  BY DEF Settled, TimesFollow, Repeats, SameDepth
<1>4. h.lastDts <= h.lastPts /\ h.dts <= h.lastPts /\ (h.known => h.dts = h.lastDts)
  BY <1>1 DEF Decoding, Repeats
<1>5. QED
  BY <1>1, <1>2, <1>3, <1>4 DEF Decoding, GoesUp, Repeats, SameDepth

(* What waits with picture n was sent before picture n + 1.                *)
LEMMA WaitingIs ==
  ASSUME Chosen, NEW n \in Nat, NEW g, Decoding(g, n)
  PROVE  /\ ShownAt(n) \in Nat
         /\ IsFiniteSet(Waiting(g, ShownAt(n))) /\ Waiting(g, ShownAt(n)) \subseteq TimesBefore(n + 1)
         /\ Waiting(g, ShownAt(n)) \subseteq Nat
<1>1. ShownAt(n) \in Nat
  BY ShownAtIs
<1>2. IsFiniteSet(Waiting(g, ShownAt(n)))
  BY FS_AddElement DEF Waiting, Decoding
<1>3. Waiting(g, ShownAt(n)) \subseteq TimesBefore(n + 1)
  BY DEF Waiting, Decoding, TimesBefore
<1>4. Waiting(g, ShownAt(n)) \subseteq Nat
  BY <1>1 DEF Waiting, Decoding, Generators
<1>5. QED
  BY <1>1, <1>2, <1>3, <1>4

(* Until a time is known a picture waits; afterwards none does.            *)
LEMMA DecodingWaits ==
  ASSUME Chosen, NEW n \in Nat, NEW g, Decoding(g, n), NEW h \in Generators,
         h.lastPts = ShownAt(n), Waits(g, h, ShownAt(n))
  PROVE  Decoding(h, n + 1) /\ GoesUp(g, h)
<1> DEFINE pts == ShownAt(n)
           w == Waiting(g, pts)
<1>1. pts \in Nat /\ IsFiniteSet(w) /\ w \subseteq TimesBefore(n + 1)
  BY WaitingIs
<1>2. ~TimesBegun(g)
  <2> SUFFICES ASSUME TimesBegun(g) PROVE FALSE
    OBVIOUS
  <2>1. /\ g.size \in Nat /\ g.size # 0 /\ g.size # 1
        /\ Cardinality(g.sorter) >= g.size /\ IsFiniteSet(g.sorter)
    BY DEF Decoding, Generators, Waits
  <2>2. pts \notin g.sorter
    <3>1. ASSUME NEW i \in 0 .. n - 1 PROVE ShownAt(i) # pts
      BY ShownOnce
    <3>2. QED
      BY <3>1 DEF Decoding, TimesBefore
  <2>3. Cardinality(w) = Cardinality(g.sorter) + 1 /\ Cardinality(g.sorter) \in Nat
    BY <2>1, <2>2, FS_AddElement, FS_CardinalityType DEF Waiting
  <2>4. ~(Cardinality(w) > g.size)
    BY <2>1 DEF Waits
  <2>5. QED
    BY <2>1, <2>3, <2>4
<1>3. g.lastDts = 0 /\ ~g.known
  BY <1>2 DEF TimesBegun
<1>4. ~TimesBegun(h) /\ h.lastDts <= h.lastPts /\ h.dts <= h.lastPts /\ ~h.known
  BY <1>1, <1>3 DEF TimesBegun, Waits
<1>5. h.sorter = w
  BY DEF Waits
<1> HIDE DEF w, pts
<1>6. QED
  BY <1>1, <1>3, <1>4, <1>5 DEF Decoding, GoesUp

(* Without reordering a picture is decoded when it is shown.               *)
LEMMA DecodingShows ==
  ASSUME Chosen, NEW n \in Nat, NEW g, Decoding(g, n), NEW h \in Generators,
         h.lastPts = ShownAt(n), Straight(g, h, ShownAt(n))
  PROVE  Decoding(h, n + 1) /\ GoesUp(g, h)
<1>1. ShownAt(n) \in Nat
  BY ShownAtIs
<1>2. IsFiniteSet(h.sorter) /\ h.sorter \subseteq TimesBefore(n + 1)
  BY DecodingLater DEF Decoding, Straight
<1>3. /\ h.size = 1 /\ h.dts = ShownAt(n) /\ h.lastDts = ShownAt(n) /\ h.known
      /\ Settled(g) <=> Settled(h)
  BY DEF Straight, SameDepth, Settled
<1>4. Settled(h) => TimesFollow(h, n + 1)
  <2> SUFFICES ASSUME Settled(h) PROVE TimesFollow(h, n + 1)
    OBVIOUS
  <2>1. Len(group) = 1
    BY <1>3 DEF Settled
  <2>2. AllComeAfter(ShownAt(n), n + 1)
    BY <2>1, ShownInOrder DEF AllComeAfter
  <2>3. QED
    BY <1>3, <2>2 DEF TimesFollow
<1>5. Settled(g) /\ g.known => g.dts < h.dts
  BY <1>3 DEF Decoding, TimesBegun, TimesFollow, AllComeAfter
<1>6. QED
  BY <1>1, <1>2, <1>3, <1>4, <1>5 DEF Decoding, GoesUp

(* With reordering the earliest picture that waits gives the time.         *)
LEMMA DecodingLeaves ==
  ASSUME Chosen, NEW n \in Nat, NEW g, Decoding(g, n), NEW h \in Generators,
         h.lastPts = ShownAt(n), NEW least \in Waiting(g, ShownAt(n)),
         Leaves(g, h, ShownAt(n), least)
  PROVE  Decoding(h, n + 1) /\ GoesUp(g, h)
<1> DEFINE pts == ShownAt(n)
           w == Waiting(g, pts)
<1>1. pts \in Nat /\ IsFiniteSet(w) /\ w \subseteq TimesBefore(n + 1) /\ w \subseteq Nat
  BY WaitingIs
<1>2. /\ h.size \in Nat \ {0} /\ h.offset \in Nat /\ Cardinality(w) > h.size
      /\ least \in w /\ (\A s \in w : least <= s) /\ h.sorter = w \ {least}
      /\ h.known /\ h.dts = Dts!Earlier(least + h.offset, pts) /\ h.lastDts = h.dts
  BY DEF Leaves, Generators
<1>3. least \in Nat /\ Cardinality(w) \in Nat
  BY <1>1, <1>2, FS_CardinalityType
<1> HIDE DEF w
<1>4. /\ h.dts <= pts /\ h.dts <= least + h.offset
      /\ h.dts = pts \/ h.dts = least + h.offset
  BY <1>1, <1>2, <1>3 DEF Dts!Earlier
<1>5. IsFiniteSet(h.sorter) /\ h.sorter \subseteq TimesBefore(n + 1) /\ Cardinality(h.sorter) >= h.size
  <2>1. IsFiniteSet(h.sorter) /\ Cardinality(h.sorter) = Cardinality(w) - 1
    BY <1>1, <1>2, FS_RemoveElement
  <2>2. QED
    BY <1>1, <1>2, <1>3, <2>1
<1>6. Settled(h) => TimesFollow(h, n + 1)
  <2> SUFFICES ASSUME Settled(h) PROVE TimesFollow(h, n + 1)
    OBVIOUS
  <2>1. ASSUME NEW i \in Nat, i >= n + 1
        PROVE  least + h.offset < ShownAt(i)
    <3>1. w \in SUBSET TimesBefore(i)
      BY <1>1, <2>1 DEF TimesBefore
    <3>2. Cardinality(w) > Len(group) /\ 2 * h.offset <= PictureTime * Len(group)
      BY <1>2 DEF Settled
    <3>3. QED
      BY <1>1, <1>2, <3>1, <3>2, EarliestIsEarly
  <2>2. ASSUME NEW i \in Nat, i >= n + 1
        PROVE  least < ShownAt(i) /\ h.dts < ShownAt(i)
    <3>1. least + h.offset < ShownAt(i) /\ ShownAt(i) \in Nat
      BY <2>1, <2>2, ShownAtIs
    <3>2. QED
      BY <1>1, <1>2, <1>3, <1>4, <3>1
  <2>3. ASSUME NEW s \in h.sorter PROVE least < s
    <3>1. s \in w /\ s # least
      BY <1>2
    <3>2. s \in Nat /\ least <= s
      BY <1>1, <1>2, <3>1
    <3>3. QED
      BY <1>3, <3>1, <3>2
  <2>4. QED
    BY <1>2, <1>3, <1>4, <2>2, <2>3 DEF TimesFollow, AllComeAfter
<1>7. Settled(g) /\ g.known => g.dts < h.dts
  <2> SUFFICES ASSUME Settled(g), g.known PROVE g.dts < h.dts
    OBVIOUS
  <2>1. TimesFollow(g, n) /\ g.dts = g.lastDts /\ g.size # 0 /\ g.size # 1 /\ g.lastDts \in Nat
    BY DEF Decoding, TimesBegun, Leaves, Generators
  <2>2. g.offset = h.offset
    BY <2>1 DEF Leaves, SameDepth
  <2>3. g.lastDts < pts
    BY <2>1 DEF TimesFollow, AllComeAfter
  <2>4. PICK m \in Nat : /\ g.lastDts <= m + g.offset /\ (\A s \in g.sorter : m < s)
                         /\ AllComeAfter(m, n)
    BY <2>1 DEF TimesFollow
  <2>5. m < least
    BY <1>2, <2>4 DEF AllComeAfter, w, Waiting
  <2>6. g.lastDts < least + h.offset
    BY <1>2, <1>3, <2>1, <2>2, <2>4, <2>5
  <2>7. QED
    BY <1>4, <2>1, <2>3, <2>6
<1>8. QED
  BY <1>2, <1>4, <1>5, <1>6, <1>7 DEF Decoding, GoesUp, TimesBegun

(* Every call of getDts.                                                   *)
LEMMA DecodingGoesOn ==
  ASSUME Chosen, NEW n \in Nat, NEW g, Decoding(g, n),
         NEW h, h = Dts!GetDts(g, ShownAt(n))
  PROVE  Decoding(h, n + 1) /\ GoesUp(g, h)
<1>1. g \in Generators /\ ShownAt(n) \in Nat
  BY ShownAtIs DEF Decoding
<1>2. /\ h \in Generators /\ h.lastPts = ShownAt(n)
      /\ \/ Repeats(g, h, ShownAt(n)) \/ Straight(g, h, ShownAt(n)) \/ Waits(g, h, ShownAt(n))
         \/ \E least \in Waiting(g, ShownAt(n)) : Leaves(g, h, ShownAt(n), least)
  BY <1>1, GetDtsIs
<1>3. CASE Repeats(g, h, ShownAt(n))
  <2>1. g.lastPts = ShownAt(n)
    BY <1>3 DEF Repeats
  <2>2. Decoding(h, n) /\ GoesUp(g, h)
    BY <1>2, <1>3, <2>1, DecodingAgain
  <2>3. QED
    BY <2>2, DecodingLater
<1>4. QED
  BY <1>2, <1>3, DecodingShows, DecodingWaits, DecodingLeaves

(* Every other call for a picture.                                         *)
LEMMA AgainGoesOn ==
  ASSUME NEW n \in Nat, NEW g, Decoding(g, n), NEW h, h = Dts!GetDts(g, g.lastPts)
  PROVE  Decoding(h, n) /\ GoesUp(g, h)
<1>1. g \in Generators /\ g.lastPts \in Nat
  BY DEF Decoding, Generators
<1>2. h \in Generators /\ h.lastPts = g.lastPts /\ Repeats(g, h, g.lastPts)
  BY <1>1, GetDtsIs DEF Straight, Waits, Leaves
<1>3. QED
  BY <1>2, DecodingAgain

PicturesInv ==
  /\ first \in Nat /\ group \in Groups \union {<< >>} /\ pictures \in 0 .. LastPicture
  /\ group = << >> => generator = Dts!NewGenerator /\ pictures = 0
  /\ group # << >> => Decoding(generator, pictures)

(* Before the first picture.                                               *)
LEMMA DecodingStarts ==
  ASSUME generator' = Dts!NewGenerator, pictures' = 0
  PROVE  Decoding(generator, pictures)'
<1>1. /\ generator' \in Generators /\ generator'.sorter = {}
      /\ generator'.lastDts = 0 /\ generator'.lastPts = 0 /\ generator'.dts = 0
      /\ generator'.known = FALSE
  BY DEF Dts!NewGenerator, Generators
<1>2. IsFiniteSet(generator'.sorter) /\ ~TimesBegun(generator)'
  BY <1>1, FS_EmptySet DEF TimesBegun
<1>3. QED
  BY <1>1, <1>2 DEF Decoding, Generators

(* While order and first time stay, so does what they say.                 *)
LEMMA DecodingStays ==
  ASSUME group' = group, first' = first, Decoding(generator', pictures')
  PROVE  Decoding(generator, pictures)'
<1>1. ASSUME NEW n PROVE ShownAt(n)' = ShownAt(n)
  BY DEF ShownAt
<1>2. TimesBefore(pictures)' = TimesBefore(pictures')
  BY <1>1 DEF TimesBefore
<1>3. (Settled(generator)' <=> Settled(generator')) /\ (TimesBegun(generator)' <=> TimesBegun(generator'))
  BY DEF Settled, TimesBegun
<1>4. TimesFollow(generator', pictures') => TimesFollow(generator, pictures)'
  BY <1>1 DEF TimesFollow, AllComeAfter
<1>5. QED
  BY <1>2, <1>3, <1>4 DEF Decoding

(* What every step of the pictures does.                                   *)
LEMMA PicturesSteps ==
  ASSUME PicturesInv, [MediaNext]_mediaVars
  PROVE  /\ PicturesInv'
         /\ generator' = generator \/ (group # << >> /\ GoesUp(generator, generator'))
<1>1. /\ first \in Nat /\ group \in Groups \union {<< >>}
      /\ pictures \in 0 .. LastPicture /\ LastPicture \in Nat
      /\ group = << >> => generator = Dts!NewGenerator /\ pictures = 0
      /\ group # << >> => Chosen /\ Decoding(generator, pictures)
  BY MediaAssumption DEF PicturesInv, Chosen
<1>2. ASSUME NEW order \in Groups, NEW time \in FirstPts, ChooseOrder(order, time)
      PROVE  PicturesInv' /\ generator' = generator
  <2>1. /\ group' \in Groups /\ first' \in Nat
        /\ generator' = Dts!NewGenerator /\ pictures' = 0
    BY <1>1, <1>2, MediaAssumption DEF ChooseOrder
  <2>2. Decoding(generator, pictures)'
    BY <2>1, DecodingStarts
  <2>3. QED
    BY <1>1, <1>2, <2>1, <2>2 DEF PicturesInv, ChooseOrder
<1>3. ASSUME PicturesMayMove, Decoding(generator', pictures'),
             pictures' = pictures \/ (pictures < LastPicture /\ pictures' = pictures + 1)
      PROVE  PicturesInv'
  <2>1. group' = group /\ first' = first /\ group # << >>
    BY <1>3 DEF PicturesMayMove
  <2>2. pictures' \in 0 .. LastPicture
    BY <1>1, <1>3
  <2>3. Decoding(generator, pictures)'
    BY <1>3, <2>1, DecodingStays
  <2>4. QED
    BY <1>1, <2>1, <2>2, <2>3 DEF PicturesInv
<1>4. CASE Picture
  <2>1. Chosen /\ Decoding(generator, pictures) /\ pictures \in Nat /\ group # << >>
    BY <1>1, <1>4 DEF Picture, PicturesMayMove
  <2>2. Decoding(generator', pictures + 1) /\ GoesUp(generator, generator')
    BY <1>4, <2>1, DecodingGoesOn DEF Picture
  <2>3. QED
    BY <1>3, <1>4, <2>1, <2>2 DEF Picture
<1>5. CASE PictureAgain
  <2>1. Decoding(generator, pictures) /\ pictures \in Nat /\ group # << >>
    BY <1>1, <1>5 DEF PictureAgain, PicturesMayMove
  <2>2. generator \in Generators /\ generator.lastPts \in Nat
    BY <2>1 DEF Decoding, Generators
  <2>3. generator' = Dts!GetDts(generator, generator.lastPts)
    BY <1>5 DEF PictureAgain
  <2>4. Decoding(generator', pictures) /\ GoesUp(generator, generator')
    BY <2>1, <2>2, <2>3, AgainGoesOn
  <2>5. QED
    BY <1>3, <1>5, <2>1, <2>4 DEF PictureAgain
<1>6. CASE PictureLost
  <2>1. Chosen /\ Decoding(generator, pictures) /\ pictures \in Nat
    BY <1>1, <1>6 DEF PictureLost, PicturesMayMove
  <2>2. Decoding(generator, pictures + 1)
    BY <2>1, DecodingLater
  <2>3. QED
    BY <1>3, <1>6, <2>2 DEF PictureLost
<1>7. CASE UNCHANGED pictureVars
  <2>1. /\ group' = group /\ first' = first
        /\ pictures' = pictures /\ generator' = generator
    BY <1>7 DEF pictureVars
  <2>2. group # << >> => Decoding(generator, pictures)'
    BY <1>1, <2>1, DecodingStays
  <2>3. QED
    BY <1>1, <2>1, <2>2 DEF PicturesInv
<1>8. QED
  BY <1>2, <1>4, <1>5, <1>6, <1>7 DEF MediaNext, SendVideo, SendAudio, mediaVars

(* The generator and its pictures keep their invariant.                    *)
LEMMA PicturesInvariant ==
  MediaSpec => []PicturesInv
<1>1. MediaInit => PicturesInv
  BY MediaAssumption DEF MediaInit, PicturesInv
<1>2. PicturesInv /\ [MediaNext]_mediaVars => PicturesInv'
  BY PicturesSteps
<1>3. QED
  BY <1>1, <1>2, PTL DEF MediaSpec

(***************************************************************************)
(* Decoding times are never later than the time a picture is shown; and     *)
(* once depth and offset were learned from a group that came whole they     *)
(* go up with every picture, in whatever order a group is shown and         *)
(* whatever is lost.                                                       *)
(***************************************************************************)
THEOREM DecodingTimesIncrease == MediaSpec => DtsIncreases
<1> DEFINE Step == /\ generator'.dts <= generator'.lastPts
                   /\ Learned /\ generator.known /\ generator'.lastPts # generator.lastPts =>
                        generator.dts < generator'.dts
<1>1. PicturesInv /\ PicturesInv' /\ [MediaNext]_mediaVars => [Step]_mediaVars
  <2> SUFFICES ASSUME PicturesInv, [MediaNext]_mediaVars PROVE Step
    OBVIOUS
  <2>1. CASE generator' = generator
    <3>1. generator.dts <= generator.lastPts
      BY DEF PicturesInv, Decoding, Dts!NewGenerator
    <3>2. QED
      BY <2>1, <3>1
  <2>2. CASE group # << >> /\ GoesUp(generator, generator')
    BY <2>2 DEF GoesUp, Settled, Learned
  <2>3. QED
    BY <2>1, <2>2, PicturesSteps
<1>2. QED
  BY <1>1, PicturesInvariant, PTL DEF MediaSpec, DtsIncreases

(***************************************************************************)
(* The type invariant of the media: fragments are collected only for one   *)
(* unit and in order, audio frames stay within their limit, and the        *)
(* generator keeps its types.                                              *)
(***************************************************************************)
THEOREM MediaTypeCorrect == MediaSpec => []MediaTypeOK
<1>1. PathInv /\ AudioInv /\ PicturesInv => MediaTypeOK
  <2> SUFFICES ASSUME PathInv, AudioInv, PicturesInv PROVE MediaTypeOK
    OBVIOUS
  <2>1. audio.last \in 0 .. SeqMod - 1 /\ audio.drop \in BOOLEAN
    BY DEF AudioInv, AudioDecoders
  <2>2. generator.sorter \subseteq Nat /\ generator.known \in BOOLEAN
    <3>1. CASE group = << >>
      <4>1. generator = Dts!NewGenerator
        BY <3>1 DEF PicturesInv
      <4>2. generator.sorter = {} /\ generator.known = FALSE
        BY <4>1 DEF Dts!NewGenerator
      <4>3. QED
        BY <4>2
    <3>2. CASE group # << >>
      BY <3>2 DEF PicturesInv, Decoding, Generators
    <3>3. QED
      BY <3>1, <3>2
  <2>3. QED
    BY <2>1, <2>2, TypeFollows DEF MediaTypeOK, AudioInv, PicturesInv
<1>2. QED
  BY <1>1, PathInvariant, AudioInvariant, PicturesInvariant, PTL
===============================================================================
