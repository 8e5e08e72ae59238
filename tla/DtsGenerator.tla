---------------------------- MODULE DtsGenerator ----------------------------
(***************************************************************************)
(* How a decoder guesses when a picture is decoded from when it is shown:  *)
(* DtsGenerator of src/base/Stamp.cpp.  The generator is a record:         *)
(*   lastPts, lastDts, max   _last_pts, _last_dts, _last_max_pts           *)
(*   since, size, count      _frames_since_last_max_pts, _sorter_max_size, *)
(*                           _count_sorter_max_size                        *)
(*   offset, sorter          _dts_pts_offset, _pts_sorter                  *)
(*   dts, known              what getDts gave last, and returned           *)
(***************************************************************************)
EXTENDS Naturals, FiniteSets

NewGenerator ==
  [lastPts |-> 0, lastDts |-> 0, max |-> 0, since |-> 0, size |-> 0, count |-> 0,
   offset |-> 0, sorter |-> {}, dts |-> 0, known |-> FALSE]

Earlier(a, b) == IF a < b THEN a ELSE b
Earliest(times) == CHOOSE t \in times : \A u \in times : t <= u

(* The pictures between two that go ahead in time are counted; at the third *)
(* that goes ahead, their number is taken for the depth of the reordering. *)
Learn(g, pts) ==
  LET ahead == pts > g.max
      ends  == ahead /\ g.since # 0
      learns == ends /\ g.count > 0
  IN  IF g.size # 0 THEN g
      ELSE [g EXCEPT !.size   = IF learns THEN g.since ELSE 0,
                     !.offset = IF learns THEN (pts - g.max) \div 2 ELSE @,
                     !.count  = IF ends THEN @ + 1 ELSE @,
                     !.max    = IF ahead THEN pts ELSE @,
                     !.since  = IF ahead THEN 1 ELSE @ + 1]

(* The earliest of the pictures that wait leaves once they are too many.   *)
SortKeepAll(g, pts) ==
  LET waiting == g.sorter \union {pts}
  IN  IF g.size # 0 /\ Cardinality(waiting) > g.size
      THEN [g EXCEPT !.sorter = waiting, !.known = TRUE,
                     !.dts = Earlier(Earliest(waiting) + g.offset, pts)]
      ELSE [g EXCEPT !.sorter = waiting, !.known = FALSE]
Sort(g, pts) ==
  LET waiting == g.sorter \union {pts}
  IN  IF g.size # 0 /\ Cardinality(waiting) > g.size
      THEN [g EXCEPT !.sorter = waiting \ {Earliest(waiting)}, !.known = TRUE,
                     !.dts = Earlier(Earliest(waiting) + g.offset, pts)]
      ELSE [g EXCEPT !.sorter = waiting, !.known = FALSE]

(* getDts_l. Without reordering a picture is decoded when it is shown.     *)
Guess(g, pts) ==
  IF g.size = 1 THEN [g EXCEPT !.dts = pts, !.known = TRUE] ELSE Sort(Learn(g, pts), pts)

GetDts(g, pts) ==
  LET again   == pts = g.lastPts
      guess   == IF again THEN [g EXCEPT !.dts = g.lastDts, !.known = g.lastDts # 0]
                 ELSE Guess(g, pts)
  IN  [guess EXCEPT !.lastPts = pts,
                    !.lastDts = IF guess.known /\ ~again THEN guess.dts ELSE g.lastDts,
                    !.dts = IF guess.known THEN guess.dts ELSE pts]
=============================================================================
