--------------------------------- MODULE Log ---------------------------------
(***************************************************************************)
(* The logger (src/base/Log.cpp, src/base/Log.h).  Threads append lines to *)
(* the current buffer of a ring under _mutex; a thread of the logger's own *)
(* takes the ring's buffers one by one, writes them to a file and clears   *)
(* them, most of it outside the mutex.  Lines are numbered in the order in *)
(* which buffers take them; a buffer holds Room units, a line takes one or *)
(* more.  The file under index 0 is <name>.log, the others <name>.log.1 ..; *)
(* _fp is open exactly while there is a file under index 0.                *)
(***************************************************************************)
EXTENDS Integers, Sequences, FiniteSets

CONSTANTS
  Threads,      \* the threads that log
  Lengths,      \* the lengths of lines, in units
  FirstBuffers, \* the buffers the ring starts with (3 in the code)
  MaxBuffers,   \* MEM_USE_LIMIT, in buffers
  Room,         \* _oneBuffLen, in units
  RollSize,     \* LOG_USE_LIMIT, in lines
  MaxLines,     \* bound: lines that are taken, and lines in the log
  MaxDays,      \* bound: midnights that pass
  MaxFaults,    \* bound: times the disk takes less than it is given
  Preempted     \* may a whole buffer fill up between two statements of persist()?

ASSUME LogAssumption ==
  /\ {FirstBuffers, MaxBuffers, Room, RollSize} \subseteq Nat \ {0}
  /\ Lengths \subseteq 1 .. Room
  /\ 1 < FirstBuffers /\ FirstBuffers <= MaxBuffers
  /\ {MaxLines, MaxDays, MaxFaults} \subseteq Nat
  /\ Preempted \in BOOLEAN

VARIABLES
  ring,     \* the buffers in the order of _next, from _prstBuf on: [full, data, used]
  curr,     \* where in ring _currBuf is
  lastDrop, \* _lst_lts: "never" (0), "now" (less than RELOG_THRESOLD ago), "old"
  pc,       \* where in append() each thread is
  refused,  \* the length of a line that found no memory, until its thread has
            \* looked at _lst_lts again and releases _mutex; 0 if there is none
  persist,  \* where in persist() the logger's thread is
  files,    \* today's files, by index
  logCnt,   \* _logCnt
  newDay,   \* _day # _tm.day
  archive,  \* the lines in the files of earlier days
  days,     \* midnights so far
  taken,    \* history: how many lines buffers took
  faults,   \* history: how often the disk took less than it was given
  log       \* history: what is on disk and what is to be, in order

ringVars == <<ring, curr>>
appendVars == <<lastDrop, pc, refused>>
fileVars == <<files, logCnt, newDay, archive, days>>
logVars == <<taken, faults, log>>
vars == <<ringVars, appendVars, persist, fileVars, logVars>>

(* A line that append() gave up and that gets into a buffer all the same,   *)
(* with or without bytes of lines that were there before.                  *)
Stray == 0

-----------------------------------------------------------------------------
(* LogBuffer: a line that is too long for what is left is not put.         *)
EmptyBuffer == [full |-> FALSE, data |-> <<>>, used |-> 0]
Fits(buf, len) == Room - buf.used >= len
Put(buf, line, len) ==
  IF Fits(buf, len) THEN [buf EXCEPT !.data = Append(@, line), !.used = @ + len] ELSE buf

(* Positions in the ring; _prstBuf is at 1.                                *)
After(i) == (i % Len(ring)) + 1
Filled(i) == [ring EXCEPT ![i].full = TRUE]

(* The lines of the files fs, none of which is over the index top: the      *)
(* higher the index of a file, the older its lines.                        *)
LinesOf(fs, top) ==
  LET below[n \in 0 .. top + 1] ==
        IF n = 0 THEN <<>>
        ELSE (IF n - 1 \in DOMAIN fs THEN fs[n - 1] ELSE <<>>) \o below[n - 1]
  IN  below[top + 1]
Written == archive \o LinesOf(files, logCnt)

(* Behind the n-th of the lines, one is inserted, or k are taken out.       *)
Inserted(lines, n, line) == SubSeq(lines, 1, n) \o <<line>> \o SubSeq(lines, n + 1, Len(lines))
Without(lines, n, k) == SubSeq(lines, 1, n) \o SubSeq(lines, n + k + 1, Len(lines))

-----------------------------------------------------------------------------
(* append(), cut where other threads can come in between.                  *)

(* _lst_lts is read and written without the mutex: lines are dropped for    *)
(* some seconds after one found no room.                                   *)
Enter(t) ==
  /\ pc[t] = "idle" /\ lastDrop # "now"
  /\ pc' = [pc EXCEPT ![t] = "entered"]
  /\ UNCHANGED <<ringVars, lastDrop, refused, persist, fileVars, logVars>>

ForgetDrop(t) ==
  /\ pc[t] = "entered"
  /\ lastDrop' = "never"
  /\ pc' = [pc EXCEPT ![t] = "locking"]
  /\ UNCHANGED <<ringVars, refused, persist, fileVars, logVars>>

(* The buffer, after the line that starts it: "if (!_lst_lts) append".      *)
Started(buf, len) == IF lastDrop = "never" THEN Put(buf, taken + 1, len) ELSE buf
TakenIf(took) ==
  /\ taken' = IF took THEN taken + 1 ELSE taken
  /\ log' = IF took THEN Append(log, taken + 1) ELSE log

(* What is done under the mutex, one action per branch.                    *)
AppendHere(t, len) ==
  /\ ~ring[curr].full /\ Fits(ring[curr], len)
  /\ ring' = [ring EXCEPT ![curr] = Put(@, taken + 1, len)]
  /\ TakenIf(TRUE)
  /\ pc' = [pc EXCEPT ![t] = "idle"]
  /\ UNCHANGED <<curr, lastDrop, refused>>

(* The current buffer is given up as FULL. Unless Preempted, this does not *)
(* happen to the buffer that persist() has cleared and not yet left.       *)
Overflows(len) ==
  /\ ~ring[curr].full /\ ~Fits(ring[curr], len)
  /\ Preempted \/ ~(persist = "leaving" /\ curr = 1)

MoveOnUnmarked(t, len) ==
  /\ Overflows(len) /\ ~ring[After(curr)].full
  /\ curr' = After(curr)
  /\ ring' = [ring EXCEPT ![curr'] = Started(@, len)]
  /\ TakenIf(lastDrop = "never" /\ Fits(ring[curr'], len))
  /\ pc' = [pc EXCEPT ![t] = "idle"]
  /\ UNCHANGED <<lastDrop, refused>>

MoveOn(t, len) ==
  /\ Overflows(len) /\ ~ring[After(curr)].full
  /\ curr' = After(curr)
  /\ ring' = [Filled(curr) EXCEPT ![curr'] = Started(@, len)]
  /\ TakenIf(lastDrop = "never" /\ Fits(ring[curr'], len))
  /\ pc' = [pc EXCEPT ![t] = "idle"]
  /\ UNCHANGED <<lastDrop, refused>>

Grow(t, len) ==
  /\ Overflows(len) /\ ring[After(curr)].full /\ Len(ring) < MaxBuffers
  /\ curr' = curr + 1
  /\ ring' = [i \in 1 .. Len(ring) + 1 |->
                IF i < curr' THEN Filled(curr)[i]
                ELSE IF i = curr' THEN Started(EmptyBuffer, len) ELSE ring[i - 1]]
  /\ TakenIf(lastDrop = "never")
  /\ pc' = [pc EXCEPT ![t] = "idle"]
  /\ UNCHANGED <<lastDrop, refused>>

(* No more memory: _currBuf is the next buffer, which is FULL, and the line *)
(* is to be dropped. The thread keeps the mutex until Settle.              *)
NoMoreSpace(t, len) ==
  /\ Overflows(len) /\ ring[After(curr)].full /\ Len(ring) >= MaxBuffers
  /\ curr' = After(curr)
  /\ ring' = Filled(curr)
  /\ lastDrop' = "now"
  /\ refused' = len
  /\ pc' = [pc EXCEPT ![t] = "refused"]
  /\ UNCHANGED <<taken, log>>

CurrentIsFull(t, len) ==
  /\ ring[curr].full
  /\ lastDrop' = "now"
  /\ pc' = [pc EXCEPT ![t] = "idle"]
  /\ UNCHANGED <<ringVars, refused, taken, log>>

AppendLine(t, len) ==
  /\ pc[t] = "locking" /\ refused = 0 /\ taken < MaxLines /\ Len(log) < MaxLines
  /\ \/ AppendHere(t, len)
     \/ MoveOn(t, len)
     \/ Grow(t, len)
     \/ NoMoreSpace(t, len)
     \/ CurrentIsFull(t, len)
  /\ UNCHANGED <<persist, fileVars, faults>>

(* "if (!_lst_lts) append" behind NoMoreSpace. Another thread's ForgetDrop  *)
(* may have come in between, and persist() may be anywhere outside the      *)
(* mutex: the line gets into a buffer that waits for the disk, is just     *)
(* written, or was just cleared. When clear() falls into append(), the sum *)
(* of _usedLen and len may be the old one: old bytes are there again.      *)
Intruded(buf) ==
  LET torn == persist = "leaving" /\ curr = 1
  IN  {[buf EXCEPT !.data = Append(@, Stray), !.used = n] :
         n \in buf.used + refused .. (IF torn THEN Room ELSE buf.used + refused)}

(* Where in log the lines of the current buffer end, if it is one to write. *)
EndOfCurrent ==
  IF ring[curr].full THEN Len(Written) + Len(ring[curr].data) ELSE Len(log)

Settle(t) ==
  /\ pc[t] = "refused"
  /\ pc' = [pc EXCEPT ![t] = "idle"]
  /\ refused' = 0
  /\ IF lastDrop = "never" /\ Fits(ring[curr], refused)
     THEN /\ \E buf \in Intruded(ring[curr]) : ring' = [ring EXCEPT ![curr] = buf]
          /\ log' = IF persist = "clearing" /\ curr = 1 THEN log
                    ELSE Inserted(log, EndOfCurrent, Stray)
     ELSE UNCHANGED <<ring, log>>
  /\ UNCHANGED <<curr, lastDrop, persist, fileVars, taken, faults>>

-----------------------------------------------------------------------------
(* persist(), cut where it is outside the mutex: the file is its own.      *)

PickUnmarked ==
  /\ persist = "waiting" /\ refused = 0 /\ ring[1].used # 0
  /\ persist' = "writing"
  /\ UNCHANGED <<ringVars, appendVars, fileVars, logVars>>

(* A buffer to write: the one that is filled, or else the current one. The *)
(* wait ends after a second, also when nobody notifies.                    *)
Pick ==
  /\ persist = "waiting" /\ refused = 0 /\ ring[1].used # 0
  /\ IF ring[1].full THEN UNCHANGED ringVars
     ELSE ring' = Filled(curr) /\ curr' = After(curr)
  /\ persist' = "writing"
  /\ UNCHANGED <<appendVars, fileVars, logVars>>

(* decisFile, where a file of today is open and long enough: <name>.log.i   *)
(* becomes .i+1, from logCnt - 1 down to 1, and <name>.log becomes .1.      *)
RolledButOne ==
  LET moved == {i \in DOMAIN files : i < logCnt /\ i # 1}
  IN  [i \in {j + 1 : j \in moved} \union (DOMAIN files \ moved) |->
         IF i - 1 \in moved THEN files[i - 1] ELSE files[i]]
Rolled ==
  LET moved == {i \in DOMAIN files : i < logCnt}
  IN  [i \in {j + 1 : j \in moved} \union (DOMAIN files \ moved) |->
         IF i - 1 \in moved THEN files[i - 1] ELSE files[i]]

IsOpen == 0 \in DOMAIN files
NeedsFile == IsOpen => (newDay \/ Len(files[0]) >= RollSize)

(* The files once _fp is closed, before a new one is opened.               *)
Closed == IF newDay THEN << >> ELSE IF IsOpen THEN Rolled ELSE files
CountedAgain == IF IsOpen /\ newDay THEN 1 ELSE logCnt + 1

(* _day and the names that go with it are set before fopen is tried.       *)
Archived ==
  /\ archive' = IF newDay THEN archive \o LinesOf(files, logCnt) ELSE archive
  /\ newDay' = FALSE
  /\ UNCHANGED days

OpenFails ==
  /\ persist = "writing" /\ NeedsFile
  /\ files' = Closed
  /\ Archived
  /\ persist' = "waiting"
  /\ UNCHANGED <<ringVars, appendVars, logCnt, logVars>>

Stored(lines) ==
  /\ IF NeedsFile
     THEN /\ files' = [i \in DOMAIN Closed \union {0} |-> IF i = 0 THEN lines ELSE Closed[i]]
          /\ logCnt' = CountedAgain
     ELSE files' = [files EXCEPT ![0] = @ \o lines] /\ UNCHANGED logCnt
  /\ Archived

(* fwrite writes all lines or, where the disk takes less, the first n: then *)
(* an error is printed, and the buffer is cleared all the same.            *)
WriteOut ==
  /\ persist = "writing"
  /\ \/ Stored(ring[1].data) /\ UNCHANGED <<faults, log>>
     \/ \E n \in 0 .. Len(ring[1].data) - 1 :
          /\ faults < MaxFaults /\ faults' = faults + 1
          /\ Stored(SubSeq(ring[1].data, 1, n))
          /\ log' = Without(log, Len(Written) + n, Len(ring[1].data) - n)
  /\ persist' = "clearing"
  /\ UNCHANGED <<ringVars, appendVars, taken>>

ClearBuffer ==
  /\ persist = "clearing"
  /\ ring' = [ring EXCEPT ![1] = EmptyBuffer]
  /\ persist' = "leaving"
  /\ UNCHANGED <<curr, appendVars, fileVars, logVars>>

(* _prstBuf = _prstBuf->_next: the ring is seen from the next buffer on.   *)
LeaveBuffer ==
  /\ persist = "leaving"
  /\ ring' = [i \in DOMAIN ring |-> ring[After(i)]]
  /\ curr' = IF curr = 1 THEN Len(ring) ELSE curr - 1
  /\ persist' = "waiting"
  /\ UNCHANGED <<appendVars, fileVars, logVars>>

-----------------------------------------------------------------------------
(* Time: RELOG_THRESOLD passes, and midnights.                             *)
DropAges ==
  /\ lastDrop = "now" /\ lastDrop' = "old"
  /\ UNCHANGED <<ringVars, pc, refused, persist, fileVars, logVars>>

Midnight ==
  /\ days < MaxDays /\ IsOpen
  /\ days' = days + 1 /\ newDay' = TRUE
  /\ UNCHANGED <<ringVars, appendVars, persist, files, logCnt, archive, logVars>>

Init ==
  /\ ring = [i \in 1 .. FirstBuffers |-> EmptyBuffer] /\ curr = 1
  /\ lastDrop = "never" /\ refused = 0
  /\ pc = [t \in Threads |-> "idle"] /\ persist = "waiting"
  /\ files = << >> /\ logCnt = 0 /\ newDay = FALSE /\ archive = <<>> /\ days = 0
  /\ taken = 0 /\ faults = 0 /\ log = <<>>

Logger == Pick \/ OpenFails \/ WriteOut \/ ClearBuffer \/ LeaveBuffer
Release == \E t \in Threads : Settle(t)

Next ==
  \/ \E t \in Threads : Enter(t) \/ ForgetDrop(t) \/ \E len \in Lengths : AppendLine(t, len)
  \/ Release
  \/ Logger
  \/ DropAges
  \/ Midnight

(* The logger's thread runs on, and so does a thread that has the mutex; a  *)
(* file can be opened again some time.                                     *)
Spec ==
  /\ Init /\ [][Next]_vars
  /\ WF_vars(Logger) /\ WF_vars(Release) /\ SF_vars(WriteOut)

-----------------------------------------------------------------------------
Buffers == [full : BOOLEAN, data : Seq(Nat), used : 0 .. Room]

(* What the logger's thread works on outside the mutex is FULL.            *)
TypeOK ==
  /\ ring \in Seq(Buffers) /\ Len(ring) \in FirstBuffers .. MaxBuffers
  /\ curr \in 1 .. Len(ring)
  /\ lastDrop \in {"never", "now", "old"}
  /\ pc \in [Threads -> {"idle", "entered", "locking", "refused"}]
  /\ refused \in Lengths \union {0}
  /\ persist \in {"waiting", "writing", "clearing", "leaving"}
  /\ persist \in {"writing", "clearing"} => ring[1].full
  /\ taken \in Nat /\ faults \in Nat

(***************************************************************************)
(* assert(_currBuf == _prstBuf) in persist(): when the logger's thread      *)
(* finds lines in a buffer that is not FULL, it is the one being filled.   *)
(***************************************************************************)
PersistsTheCurrent ==
  persist = "waiting" /\ ring[1].used # 0 /\ ~ring[1].full => curr = 1

(***************************************************************************)
(* The reader of the files sees what LogFile promises, across buffers that *)
(* are reused, rings that grow, rolled files, midnights, files that cannot *)
(* be opened and writes that fail: lines come in the order in which they    *)
(* were taken, and none is missing but what a failed write left over.  Of  *)
(* a line that append() gave up nothing is promised, but that it takes no  *)
(* other line away and changes no order.                                   *)
(***************************************************************************)
Reader == INSTANCE LogFile WITH
            Lines <- 1 .. MaxLines, refusing <- refused # 0, written <- Written
KeepsTheLog == Reader!Spec
=============================================================================
