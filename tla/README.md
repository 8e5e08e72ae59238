# Verification of the frtc receive client

frtc is a WebRTC client library that receives audio and video from a server.
This directory holds TLA+ modules that model it, TLC configurations that check
them on small instances, and proofs that the TLAPS proof system checks. Source
paths are relative to the repository (`src/rtp/RtpTrack.h`).

Contents: [the system](#the-system) · [modules](#modules) · [runs](#runs) ·
[proofs](#proofs) · [findings and observations](#findings-and-observations) ·
[what is not modelled](#what-is-not-modelled) · [plan](#plan) ·
[running](#running)

## The system

### Components, their state and their operations

| Part | Source | State | Operations |
|---|---|---|---|
| Connection `RtcContext` | `src/peer/RtcContext.cpp`, `src/peer/PeerConnection.cpp`, `src/api/FrtcImplement.cpp`, `src/base/Socket.cpp` | sdp of both sides, `_client` (socket), worker thread, `_runFlag`, SRTP sessions | `setRemoteSdp`, `startConnectPeer`, `stop`, destructor, `loop`, `dispatchPeerData` |
| DTLS transport `DtlsTransport` | `src/peer/DtlsTransport.cpp` | `state`, `localRole`, `handshakeDone`, `remoteFingerprint`, OpenSSL's session | `Run`, `SetRemoteFingerprint`, `ProcessDtlsData`, `Reset` |
| Transport and demultiplexer | `src/peer/RtcTransport.cpp`, `src/peer/RtcDemuxer.cpp`, `src/media/MediaTrack.cpp` | tracks by payload type, channels, depacketizers | `loadSdp`, `onRtp`, `createRtpChannel`, `onSortedRtp`, `onSendNack` |
| Session description | `src/peer/Sdp.cpp`, `src/peer/RtcSession.cpp` | `medias`, over all answers | `parse` and the parsers of its lines |
| Receive channel `RtpTrack`, `RtpChannel`, `WrappedRtxTrack` | `src/rtp/RtpTrack.cpp`, `src/rtp/RtpChannel.h`, `src/media/MediaTrack.cpp` | locked SSRC and its ticker, NACK ticker | `inputRtp` of original and retransmitted packets |
| Reorder buffer `PacketSortor` | `src/rtp/RtpTrack.h` 15-193 | `_started`, `_last_seq_out`, `_pkt_sort_cache_map`, `_ticker` | `sortPacket`, `flush`, `clear` |
| NACK generation `NackContext` | `src/rtcp/RtcpNack.cpp`, `FCI_NACK` in `src/rtcp/RtcpFCI.cpp` | `_seq`, `_nack_seq`, `_nack_send_status`, `_rtt` | `received`, `makeNack`, `reSendNack` |
| Transport-wide feedback `TwccContext` | `src/rtcp/TwccContext.cpp`, `FCI_TWCC` in `src/rtcp/RtcpFCI.cpp` | `_rtp_recv_status`, `_min_stamp`, `_twcc_pkt_count` | `onRtp`, `onSendTwcc` |
| Receiver reports `RtcpContextForRecv` | `src/rtcp/RtcpContext.cpp` | base, maximum and cycles of the number, counts | `onRtp`, `createRtcpRR` |
| Video depacketizers | `src/rtp/H264Rtp.cpp`, `src/rtp/H265Rtp.cpp` | frame buffer, `_gop_dropped`, `_fu_dropped`, `_last_seq` | `inputRtp` |
| Audio depacketizer | `src/rtp/G711Rtp.cpp` | frame buffer, `_last_seq`, `_drop_flag` | `inputRtp` |
| Tracks, media source, frame callback | `src/media/H264Track.cpp`, `src/media/H265Track.cpp`, `src/media/MediaSource.cpp`, `src/peer/PeerConnection.cpp` | parameter sets, `_setVideoParam`, `_videoParam.extra` | `inputFrame`, the callback of `PeerConnection` |
| DTS generation `DtsGenerator` | `src/base/Stamp.cpp` | sorter of time stamps, learned depth | `getDts` |
| Logger `Log` | `src/base/Log.cpp`, `src/base/Log.h` | ring of buffers, `_currBuf`, `_prstBuf`, `_lst_lts`, the file | `append` by any thread, `persist` and `decisFile` by its own |
| STUN, SRTP wrapper, wire formats, HTTP, utilities | rest of `src/` | none that lives on | parsing and formatting |

### How they interact

The application's thread fetches an answer over HTTP (`frtcConnectSignalServer`),
which sets the remote sdp and starts a socket and a worker thread. Everything
else happens in the worker, in the call that brought a datagram: a STUN datagram
starts the DTLS handshake; a DTLS datagram goes to `DtlsTransport`, whose
listener makes the SRTP sessions; an RTP datagram is decrypted and goes by its
payload type to a track, which notes its transport-wide number
(`TwccContext`), feeds its channel (`PacketSortor`, `NackContext`, receiver
report), and what the reorder buffer releases goes through depacketizer, track
and media source to the callbacks of the application. There are no queues and
no timers in between: every callback is a call down the same stack, and what
waits for a time (retransmission requests, the buffer's timeout, feedback, DTLS
retransmission) is looked at when the next datagram arrives or never. The two
threads share `_runFlag`, the sdp and the DTLS transport without a lock. The
logger is the one part that was made for threads: any of them appends lines, and
a thread of its own writes them to files.

### What is hard, and what makes it correct

* **Wrap of the sequence number** (buffer, NACK, feedback, reports): each class
  tells old, new and wrapped numbers apart with its own comparisons. Correct:
  each packet at most once and in order, nothing thrown away within reach, no
  request for a packet that was not sent, feedback and reports that are true.
* **Loss, reordering, copies, late answers to requests**: correct means no gap
  skipped, requests spaced and finite, nothing given up before it was asked for.
* **Loss inside frames**: no torn frame, no slice without its key frame and its
  parameter sets, and no more dropped than the group of pictures that was hit.
* **Answers**: whatever the sdp says, in which order, and once more: a decoder
  gets media of its codec, never a retransmission that was not restored.
* **Orders of handshake, answer, close and destruction**: keys for verified
  peers only, media under the keys of the answered peer, a transport that can
  always be started again, a listener that knows the state, a worker that ends.
* **Lost datagrams while connecting**: a connection comes up in spite of them.
* **Threads that log** while buffers are written, the ring grows and files roll:
  every line that was taken is on disk some time, once and in its place, unless
  the disk refused it.

`PROJECT.json` lists each hazard at its line with the properties that cover it.

## Modules

Abstract specifications, which say what a part promises and nothing of how:

| Module | Promises | Implemented by |
|---|---|---|
| `OrderedDelivery` | packets in the order they were sent, each at most once | `RtpChannel` (`InOrder`, proved) |
| `SecureChannel` | a listener that hears every change, keys once for each start and for the announced certificate only | `DtlsTransport` (`IsSecureChannel`, proved), and through it `RtcContext` (proved) |
| `LogFile` | what is on disk is a prefix of what the log is to hold, and it catches up; a write that fails takes lines out, a refused line may get in where nothing is written yet, and nothing else may happen | `Log` (`KeepsTheLog`; the prefix proved, the catching up model-checked) |

Components:

| Module | Models | State and actions |
|---|---|---|
| `PacketSortor` | reorder buffer | `started`, `lastOut`, `cache` (keys of the map), `stale` (the ticker passed `_max_buffer_ms`); `SortPacket`, `Flush`, `Clear`; `Elapse` is time |
| `NackContext` | NACK state | `nack` is the object as a record, every method an operator on it; `asks` is what the call asked for; `Tick` is time |
| `NackRequests` | what a sender sees of the requests for one number | extends `NackContext`; `watched` is any number, `request` the history of the requests for it, which does not look at `_nack_send_status`; an action for each of the three above |
| `RtpChannel` | one channel | composes the two above with the SSRC lock; `Arrive` and `ArriveRtx` are packets of the stream and its retransmissions, `ForeignDropped` and `ForeignAccepted` those of another source; `Tick`, `Stall` and `Silence` are time |
| `TwccFci` | `FCI_TWCC::create` and `getPacketChunkList` | pure operators; symbols and deltas instead of bytes |
| `TwccContext` | feedback | `recvStatus`, `minStamp`, `pktCount`; `Arrive` is a call of `onRtp` |
| `RtpPayload` | what packets carry | pieces of NAL units, payload structures, `keyFrame`, `configFrame` |
| `H264RtpDecoder`, `H265RtpDecoder` | video depacketizers | operators on a decoder record; H.265 takes what is the same, statement by statement, from H.264 |
| `G711RtpDecoder` | audio depacketizer | the same; a packet counts as one unit of a frame |
| `DtsGenerator` | decoding times | operators on a generator record |
| `VideoTrack` | track, media source, frame callback | operators on a track record |
| `VideoPath` | a video stream from channel to application | `codec`, `decoder`, `track`, and the sender; `Send` is one packet that is lost or passes through the whole stack |
| `MediaPath` | everything behind the channels | `VideoPath` next to the audio stream and the decoding times of an encoder's pictures. The three share no state, so a behaviour moves one of them: a sum, not a product |
| `SessionDescription` | `Sdp::parse` | an answer is the sequence of its lines that matter |
| `ReceiverReport` | the counts of `RtcpContextForRecv` | operators on a record |
| `RtcTransport` | from answers and packets to decoders and feedback | `medias`, `ptToTrack`, `decoders`, `channels`; `LoadSdp`, an arrival for each kind of packet, `ReportDue` and `Silence` are time. It composes the two above with an abstract channel, which may output what it accepted at any later arrival: when it does is the matter of `RtpChannel` |
| `DtlsTransport` | DTLS state machine | the members of the class; what OpenSSL holds is `peer`; `notes` are the listener calls of the last operation |
| `RtcContext` | both threads, socket, DTLS, SRTP | extends `DtlsTransport`, whose operations its datagrams and answers call; `api` and `worker` are the program counters of the threads, `net` the datagrams on their way |
| `Log` | the logger | `ring` seen from `_prstBuf` on, `curr`, `files`; `pc` is where each thread is in `append`, `persist` where the logger's thread is; each is cut where others can come in between. `Settle` is line 172, where the thread that dropped a line looks at `_lst_lts` again; `WriteOut` may write less than it is given |
| `MC*` | instances | extend one module each; the `.cfg` files give the constants |
| `*Proofs` | theorems | see [proofs](#proofs) |

Conventions: an operator whose name extends another one's (`FirstGapNone` next
to `FirstGap`) is a plausible mistake in that code; no specification uses it.
It documents which mistake the property named in `PROJECT.json` would show.

Abstractions that matter:

* A packet is its number; a frame is the pieces of units in it. Payload bytes,
  lengths in bytes and time stamps do not occur, except times of arrival in
  `TwccContext` and times of display in `DtsGenerator`.
* `PacketSortor` forgets which copy of a packet the map holds; `RtpChannel`
  adds that in `held`, since `emplace` keeps an old copy under a number that
  comes round again.
* `FCI_NACK` is the set of packets it asks for; how `reSendNack` packs numbers
  into several of them is left out. Its first number is always asked for, also
  when that packet is there.
* OpenSSL is the environment of `DtlsTransport`: any event it can report while
  the transport runs, in any order, except a renegotiation with another
  certificate, which OpenSSL refuses.
* `VideoPath` assumes that the application gave a `video_param_cb`, and a sender
  whose parameter sets are followed by a key picture (`leading`).
* `RtcTransport` has no copies: libsrtp's replay window drops them before `onRtp`.
* `Log`: a buffer of 30 MB does not fill up between two neighbouring statements
  of `persist` (`Preempted = FALSE`, observation 14). A line that is cut off by a
  short write counts as lost. The text of a line, its time, and a directory that
  cannot be used are left out.
* Plain variables that threads share without a lock, `_runFlag` and `_lst_lts`, are
  read and written at the statements that do it: `CMakeLists.txt` builds without
  optimisation.
* Ghost variables: `delivered`, `output`, `askedFor`, `held`, `widest`, `mixed`
  (`RtpChannel`); `watched`, `request` (`NackRequests`); `unreported`, `arrival` (`TwccContext`); `missed`, `torn`, `unseen`,
  `shunned`, `keyShown` (`VideoPath`); `heard` (`MediaPath`); `stream`
  (`RtcTransport`); `taken`, `faults`, `log`, `archive` (`Log`). `unseen` stands for the gap right
  after number 0, which the decoder cannot see because `_last_seq = 0` means
  "none".

## Runs

Every run is exhaustive for its constants. A bound is a constant with the
comment "bound" in its module, or a number space made small.

| Run | Question | Bounds, and why they are enough |
|---|---|---|
| `MCPacketSortor` | What does the buffer hold, lose and output when any number arrives at any time? | 16 numbers, distance 3, buffer 4: all relations of position, distance, wrap window and buffer limit occur, and more arrivals than numbers |
| `MCNackContext` | Is every loss asked for, is it asked for again while it is open, and never otherwise? | 8 numbers, FCIs of 2, at most 2 states, an rtt of one or two ticks, two ticks until a request is too old, three requests: gaps of several FCIs, trimmed lists, states that are forgotten, spent by count, spent by age, and answered late, each at any time. The number that is watched is 1, late in the middle of the numbers, taken for a wrap near their end, and the first to be forgotten |
| `RtpChannelOrder` | Does a channel deliver at most once and in order? Refinement of `OrderedDelivery` | numbering starts at 8 of 16, so the ten packets cross the wrap; up to three places late, copies, losses, RTX and stalls. A packet arrives less than half the numbers ahead of the output (`Reach`), or behind it by less than `MaxAge` while the output stands at a position of `AfterGivenUp`: only far from the wrap, see observation 3 |
| `RtpChannelNack` | Does NACK run ahead of the stream, also while another source sends, does the buffer give up packets that were not asked for? | 34 numbers, 12 packets over the wrap, bursts of up to seven lost packets where the buffer waits for a distance of six and one call asks for three, forced flushes that jump over several losses, pauses, a second source with a number inside the stream's; no late packets (observation 5), and none the output has passed. States of requests and their ages are as few as can be: `MCNackContext` has them |
| `MCMediaPath` | Are frames whole, of both media, does the application get only what it can decode, do decoding times go up? | video: both codecs, seven packets with two groups of pictures, parameter sets and fragments of three, losses anywhere and of any length (`MaxLoss` is the length of the stream), a packet with number 0 inside. Audio: seven packets, empty ones, frames longer than the limit, a number 0. Times: sixteen pictures in groups with 0, 1, 2 and 3 B pictures, losses anywhere |
| `MCRtcTransport` | Does a decoder get media of its codec only, are requests and reports true? | two answers of five shapes (RTX with and without sources, other codec, same codec under other payload types, audio first, data); 14 packets of a stream that wraps twice (8 numbers), one lost or late, another source under the same payload type |
| `MCTwccContext` | Is feedback true, bounded, and does it ignore nothing new? | the numbers wrap at packet 5; losses of two, two places late, copies, seven arrivals against messages of five; chunks of four bits, so that messages have runs and several vectors. Deltas have a range of eight milliseconds either way, which copies and pauses between them exceed: of those messages the property says nothing (observation 8) |
| `TwccChunks` | finding | the constants of the code: fields of 14 bits, messages of 20 packets or 256 ms |
| `MCDtlsTransport` | Is the state machine right under any order of calls and events? Refinement of `SecureChannel` | four fingerprints; nothing else is bounded: the state space is finite as it is |
| `MCRtcContext` | Threads, socket, keys; does destroying end, does a connection come up over lost STUN? | two calls of the application, one lost STUN and one lost DTLS datagram, the peer may close; datagrams are reordered at will |
| `RtcContextHang` | finding | one lost DTLS datagram, the peer does not close |
| `MCLog` | Do all lines get to disk, once and in order, and is none missing but by a write that failed? Refinement of `LogFile`, with liveness | two threads, a ring of two buffers that grows to three, two units each, five lines, files that roll after two lines, files that cannot be opened, one short write, one midnight: the ring is gone round more than once, lines are dropped, one that is dropped gets into a full buffer at each place of `persist`, three files roll |

`CHECK_DEADLOCK FALSE` stands where the environment really ends: the stream has
a last packet (`RtpChannel*`, `MCTwccContext`, `TwccChunks`, `MCMediaPath`,
`MCRtcTransport`), the last line was written (`MCLog`), or the application has
destroyed the context (`MCRtcContext`, `RtcContextHang`). The other runs check
for deadlock.

### What the properties say

Each module has one type invariant, which also says what belongs together (a
socket and its thread, a channel and its track, a limit and its list).

* `PacketSortor`: `OnlyZeroIsHeld` (nothing next in line waits, but packet 0),
  `BufferBound`, `NoLossWithinReach` (nothing near the position is thrown away),
  `ForwardOnly` (an arrival ahead of the position never moves the output back).
* `NackContext`: `NoGapSkipped`; with `NackRequests`, `RetriesAreSpaced` and
  `RetriesGoOn`, which are one another's converse. They compare what
  `reSendNack` asks for with a history of the requests for one number: when the
  loss was seen, how often and how long ago it was asked for, and whether the
  packet came in after it was passed over. So they fail when a late answer does not
  end the requests (`ClearNackStatusKept`), when a state is lost on the way, or
  when a limit is missed by one (`ReSendOneLess`). An rtt is what the code passes
  on, where its comment says two (observation 11). A late packet that `received`
  takes for a wrap, or that meets the position at the last number, is no answer
  (`Answers`; observation 6 tells of the packet at the position itself), and
  `crowded` says that `recordNack` had to forget numbers meanwhile.
* `RtpChannel`: `InOrder`, `AsksOnlyForThePast`, and `GivenUpOnlyAfterAsking`,
  where two classes have limits of their own. `AsksOnlyForThePast` is what the SSRC
  lock is for, too: numbers of another source that get in while the stream's is
  alive (`AcceptsAny`) move the NACK state, and the stream's sender is asked for
  packets it never sent. `mixed` excuses another source only if it came first or
  after a silence.
  `GivenUpOnlyAfterAsking` has two excuses. One is the buffer's time limit
  (`stale`): it counts from the last output, so it also runs out while packets keep
  arriving behind a gap. The other is a burst that is wider than what one call
  asks for, `MaxNack * (BitSize + 1) - NackRtpSize` packets, 162 with the code's
  numbers (`widest`): the buffer sorts first, so a burst beyond `_max_distance`
  (512) is given up before `received` sees the packet behind it. Up to that width
  the property holds, also when forced flushes jump over several losses; where one
  packet more is allowed, TLC finds one that is given up unasked.
* `TwccContext`: `WaitingIsBounded`, `MessagesTellTheTruth` (what is sent,
  chunked and read back is what arrived, and when, if the chunks fit and the
  oldest packet waited for less than a delta can say), `NewestIsNoted`.
* `VideoPath`, `MediaPath`: `NoTornMedia`, `GopIsWhole`, `OnlyTornGopsAreDropped`,
  `SlicesFollowTheirKeyFrame`, `ToldWithItsSets`, `DtsIncreases`. The first three
  say what depacketizers promise, the next two what decoder and track promise
  together, though neither knows what the other does.
* `RtcTransport`: `OnlyMediaIsDecoded`, as long as answers agree on the video
  codec, and `FeedbackTellsTheTruth`: a NACK or a report names the stream's
  source, and a report's cycles, highest number and losses are those of the
  stream.
* `DtlsTransport`: `RoleWhileRunning`, `DoneIsProcessed`, `IsSecureChannel`.
* `RtcContext`: `MediaIsFromTheAnsweredPeer`, `SendsNeedASocket`,
  `DestroyEnds`, `ComesUpOverLostStun`.
* `Log`: `PersistsTheCurrent` (the assertion in `persist`), `KeepsTheLog`: the
  lines on disk are in the order in which buffers took them, each once, and none is
  missing but what a short write left over. A line that was to be dropped may get
  in by a race (`Stray`, observation 14); of it nothing is promised but that it
  takes no other line away and changes no order.

### Fairness

`RtcContext` and `Log` claim liveness.

`RtcContext` (`FairSpec`). Weak fairness of the worker's steps: it is a thread,
and a read ends after 200 ms at the latest (`src/base/Socket.cpp`,
`SO_RCVTIMEO`), so reading or timing out goes on. Weak fairness of
`StartConnectPeer` and `Destroy`: they are the next statements of a call that is
running (the second once the thread can be joined). Strong fairness of
`Keepalive(TRUE)`: 5 s pass again and again. Strong fairness of the network and
the peer: a datagram that is sent again and again arrives some time, beyond the
losses a run counts, and the peer repeats its flight, as DTLS asks of it.
Nothing is assumed of the application, which need not call anything, and no
fairness is assumed for the client's own DTLS retransmission, which does not
exist.

`Log` (`Spec`). Weak fairness of the logger's thread, whose wait ends after a
second when nobody notifies (`src/base/Log.cpp`, `wait_for`), and strong
fairness of `WriteOut`: a file that cannot be opened again and again can be
opened some time. Of the threads that log, weak fairness of `Release` only: the one
that holds the mutex goes on. They need not log anything. `LogFile` asks for
weak fairness of `Write`: a line reaches the disk whether or not others follow.

The other modules have no fairness: without arrivals nothing happens in that
code, and no promise could be made.

## Proofs

TLAPS checks these for all values of the constants, from the assumptions in the
modules: number spaces, limits and sets are what their names say
(`SortorAssumption`, `NackAssumption`, `FciAssumption`, `ContextAssumption`,
`LogAssumption`), and what stands for "none" is none of the values
(`DtlsAssumption`). Six also say something of the sender and the network:

* `ChannelAssumption`: a packet arrives less than half the numbers ahead of the
  output, and one the output has passed only away from the wrap (`Reach`,
  `AfterGivenUp`, `MaxAge`). With the code's 65536 numbers and a distance of
  at most a few hundred that leaves all but the packets of observation 3.
* `PathAssumption`: fewer packets are lost in a row than there are numbers
  (`MaxLoss < SeqMod`). After exactly 65536 lost packets the next number
  follows the last one, and no receiver could see the gap.
* `TwccAssumption`: a packet is not as late, and a loss not as long, as a wrap is
  far. A tick of the reference time is no more than a delta can say.
* `MediaAssumption`: an encoder shows each picture of a group once, and sends none
  half a group or more after its turn. Half of a group is what the generator adds
  to the earliest picture that waits (`_dts_pts_offset /= 2`); a picture sent later
  than that would be decoded after it is shown, but for the clamp.

* `TransportAssumption`: what is lost in a row and how late a packet may be
  leave room between the two ends of the numbers where `onRtp` looks for a wrap,
  and between two wraps more packets arrive than the minimum it asks for
  (`MinCycle * (MaxSkip + 1) + MaxSkip < SeqMod`). With the code's edges, 0xFF and
  0xFF00, less than 255 may be missing or late; with its minimum of 0x1FFF packets
  the second condition bounds them to seven in a row. Where longer losses
  go on for a whole round, too few packets come for the next wrap to be counted.
* `AnswersAssumption`: an answer is a sequence of lines of the kinds that `parse`
  reads; one with retransmissions has a second payload; the payload types of video,
  of its retransmissions and of audio are three kinds, over all answers; and none
  prefers PCMU, which the client offers second (`src/peer/Sdp.cpp:131-136`). An
  answer that breaks the third makes tracks that observation 13 tells of.

The orders of losses and arrivals have no bound in any theorem, and the lengths
of streams only in those of `TwccContextProofs`: `TwccAssumption` takes a stream
that is shorter than the number space (`LastPacket < SeqMod`), so that a number
names one packet; it begins anywhere, and may cross the wrap once.

**`PacketSortorProofs`**: all five properties of the run. The inductive
invariant adds one conjunct to them, that nothing is held before the first
packet (`NothingHeldBeforeStart`), because `clear` empties the map while
`_last_seq_out` stays, and a first packet redefines it. `FirstGapProperty` says
where the flush loop stops, `FlushTargetProperty` that a forced flush takes a
packet that is in the map, so that a full buffer shrinks. `OutputMovesForward`
follows from `TargetIsAhead`: the target of a forced flush is ahead whenever
anything in the map is. `NothingWithinReachIsLost` is a statement about one
step, followed through it: what one output throws away (`EmitLoses`), a flush
(`FlushLosesFar`) and a whole call (`StepLosesFar`) is far from where the step
started, on either side of a wrap. `EmitRuns` says what one output hands out, the
number it was called for and the consecutive ones of the map, and what it may
leave behind; the channel's proof rests on it.

**`NackContextProofs`**: three of the run's properties; `RetriesGoOn`
is model-checked. `makeNack` is a loop, so
the proof goes by induction over its turns (`TurnsExist`, `LoopRule`): a set of
results that each turn stays in. That set (`Reached`, `Passed`) says that the
position is still on its way to the end of the call, and that every number it
passed was received or asked for; `TurnKeeps` is the step, where the FCI's
`count + 1` numbers, its first one and the trimmed list of received numbers
meet. The rest is arithmetic of numbers that wrap (`Turned`, `TurnedTwice`,
`Rest`) and the cases of `received`.

A second set over the same turns (`Advanced`, `Within`) says how far a call goes:
if everything received is among the next `h` numbers, nothing beyond them is asked
for, and the position does not pass them. `ReceivedWithin` needs of a packet that
it is the newest one, or that what it does for a wrap it comes after.

`RequestsAreSpaced` is proved for any number that is followed. `RInv` says that the
history agrees with the code's own notes (`FollowedBy`): while there is a state for
the number its loss is open, and count, age and idle time of the state are
those of the history. The way there is long, since a call of `received` may clear
the state, make a new one and trim the list, all in the turns of `makeNack`; what
a call leaves of a state is either what it found, or a new one of a number it
asked for (`Just`).

**`RtpChannelProofs`** composes the two: `ChannelBufferIsBounded`,
`ChannelTypeCorrect`, the refinement of `OrderedDelivery`, `DeliversInOrder`, and
`AsksForThePast`.
A step of the channel is a step of the buffer (`SortedStep`) and one or two calls
of the NACK state (`NackKeeps`), so their invariants hold in it; to them come
that `held` describes the map, that nothing was handed out since the NACKs became
due, and `Stream`: what is held, output or asked for was sent no later than the
newest arrival.

The refinement needs to know which packet a number in the map stands for
(`Placed`). Mostly it is a packet after the output and within `Reach` of it
(`Fresh`). But number 0 may be left over (`LeftOver`): it was output as a copy
while it waited, and `flushPacket` does not empty the map near the wrap; it stays
until the output is `_max_distance` past it, and must not come out again before.
Each way through `sortPacket` has a lemma: old packets are dropped, the next one
starts a run, one further away waits or forces a flush, a first one starts
everything. The hypothesis `[]~mixed` says that the channel listens to one source
only: when the lock moves to another one the map keeps the old numbers (observation
17), and nothing orders the two numberings.

For `AsksForThePast` the invariant (`Asked`) says which packets the numbers of the
NACK state belong to: it stands at a packet of the stream, and `_seq` holds none
but those from there to the newest. It needs the refinement's invariant, because
a packet is only known to be near the newest by being near the output. Its
hypotheses are that only retransmissions come late (`MaxLate = 0`, observation 5)
and that what is under way fits between the two ends of the numbers in which
`received` looks for a wrap, `2 * WrapWindow + Reach + MaxAge <= SeqMod`: with the
code's windows of 1024 numbers, up to 63488 packets. `RtpChannelNack` satisfies
both. The property speaks of the first round of numbers; after it every number
has been sent.

**`TwccContextProofs`**: `TwccTypeCorrect`, `WaitingStaysBounded`,
`NewestIsAlwaysNoted`, `ReadsWhatIsWritten`, `MessagesAlwaysTellTheTruth`: all
four properties of the run. The times that wait are not compared with each other but
with `_min_stamp`; the invariant (`Waits`) says that none is older and none too
far after it, and that `_min_stamp` is 0 exactly while nothing waits, which
`clearStatus` and the emptiness test of `onRtp` must keep together. For the last
theorem `Place` says which packet the largest waiting number belongs to: one
that is at most `MaxLate` before the newest, since only then do the comparisons
of `checkSeqStatus` tell a wrap from a late packet.

That a message tells the truth has three parts. The codec first, as a theorem of
its own (`ReadsWhatIsWritten`): whatever statuses `create` is called with,
`getPacketChunkList` gives them back if the chunks fit. The recursion over pieces
of uneven length (`Joined`) is shown to have a value by induction from the last
place back (`Downwards`, `FromExists`: over a set of naturals, with its least
element, because the library's rule of induction takes an operator); the same
induction then says what the chunks from each status on are read as
(`ChunkTells`): a vector is full or the last one, so what a reader fills it up
with comes after all statuses. `Placed` says the same of the deltas, each at the
place that counting finds it at. Then the times (`TimesAddUp`): the sums of a
reader are the times that `onSendTwcc` counted its deltas from, number by number,
because no delta was cut (`CutFits`). Last the context (`Told`): the packets noted
and not yet reported are those in the map, which all are on one side of the wrap,
so that numbers in a row are packets in a row.

**`RtcContextProofs`**, of the transport alone: `TransportTypeCorrect`,
`HandshakesAreProcessed`, `RolesEndWithTheRun`, and the refinement
`TransportIsASecureChannel`. The inductive invariant (`DtlsInv`) is the
conjunction of `TypeOK`, `RoleWhileRunning`, `DoneIsProcessed` and
`ListenerKnowsState`: none is inductive alone, because `Reset` acts on what the
role says while `ProcessDtlsData` asks what the state says. The refinement has
one case per operation; what the listener heard is the last of `notes`.

Of the connection around it: `ContextTypeCorrect`, `MediaComesFromTheAnsweredPeer`,
`SocketBeforeSending`, `SessionsAreSecure`. The invariant adds
what no one of these says: until the thread runs no datagram has reached the
transport (`Untouched`), an answer is followed by the socket (`Started`) and is
what the transport knows (`Announced`), there is only one peer (`PeerOnly`),
being connected and having keys means that the answer named it
(`ConnectedIsTrusted`, `ToldWhileConnected`, `KeysAreTrusted`).
`ConnectionUsesItsTransport` shows that a connection drives its transport only
as `DtlsTransport` specifies it, so that the refinement above carries over.

**`RtcTransportProofs`**: all three properties of the run, `TypeCorrect`,
`MediaOnly` and `FeedbackIsTrue`, for any answers, number spaces and streams.

* What `parse` makes of an answer is a recursive function over its lines; `ReadRule`
  says that what holds before the first line and is kept by every line holds of
  the result, and `Parsed` what that gives: two descriptions, the first of video
  or of nothing, the second never of video, and a type exactly with payloads.
* `TracksFit` is what `emplace` keeps: a payload type finds the track of a
  description that names it, and never another one later (`LoadKeeps`). With
  `AnswersAssumption` this says which track the packets of the last answer find
  (`VideoEntry`, `RtxEntry`, `AudioEntry`). While there is no channel answers may
  come; then they are fixed, so that a channel is of the last answer's
  video or audio and has accepted its codec only (`ChannelsFit`), and what is
  decoded is one of these two (`DecodedFits`).
* `ReportFits` compares the counts with the stream. The number last counted is of
  a packet in the newest cycle, since the newest may have come before it; and the packets
  since the last wrap, each with at most `MaxSkip` lost before it, reach as far
  as the newest number, so that at the next wrap there are enough of them
  (`Follows`). `LaterNumber` is the arithmetic of a packet that is new or late,
  within a cycle or over its end; `FirstFollows` and `CountedFollows` are the steps of the
  count, `LostIsRight` is the number that a report tells.

`FeedbackTellsTheTruth` is an action property: a report is made between the sort
and the count of the packet that brings it, so it is compared with the stream before
that packet (`ReportRight`).

**`LogProofs`**: `LogTypeCorrect` and `AssertionNeverFails`, for any number of
threads, also where they preempt the logger (`Preempted`). The invariant is
`TypeOK` with `OthersAreEmpty`: lines that are not in full buffers are in the
current one, through every way of moving on, growing and dropping.
`LogIsInOrder` is the refinement of `LogFile` without its fairness: the files hold
a beginning of what the log is to hold, which every line joins at its end when a
buffer takes it, which loses lines by a short write only, and which a refused line
may enter behind what is written. It has two halves.

* The files. `LinesOf` is recursive, and what it does is proved by induction over
  the indices: lines put at the end of `<name>.log` are put at the end of all
  (`LinesAtTheEnd`), and files that all move one index up keep their lines
  (`LinesOfMoved`). That all move, and none is overwritten, is `FilesFit`: while
  a file is open every index is below `_logCnt`. So a failed `fopen`, which has
  rolled the files already, loses nothing (`OpenFailsKeeps`), and what is written,
  all or a part, comes after everything that was (`StoredAppends`).
* The ring. `IInv` says that the lines of `log` not yet written are cut into those
  of the buffers, in the order in which they will be written (`InRow`): the full
  buffers first, then the current one, nothing after it (`Shape`). The order is
  not the ring's while the logger's thread has cleared a buffer and not left it:
  then that buffer comes last already (`View`). And what is written but not
  cleared does not count any more (`Data`). Lemmas on constants do the
  arithmetic (`CutGoesOn`, `CutIsWritten`, `CutTurns`, `CutIntruded`), one for each
  kind of step. A refused line is the hard one: when all buffers are full the
  current one is the next to be written, so the line comes right behind
  that buffer's own, in front of all the others; when the logger's thread has made
  room meanwhile, it comes last.

Here no whole buffer may fill up between two statements of `persist`
(`~Preempted`): with it `Shape` is false and lines do come out of order
(observation 14).

**`MediaPathProofs`**: `NoFrameIsTorn`, `GopsAreWhole`, `NothingElseIsDropped`,
`SlicesCanBeDecoded`, `ParametersAreTold`, `DecodingTimesIncrease`,
`MediaTypeCorrect`, for both codecs, fragments of any number, and streams of any length. The loops of the code over
the units of a packet, the frames of a call and the parameter sets are recursive
functions or folds; lemmas named after them say what they give, by an induction
over the turns that is a fact about a set (`SetInduction`). Two packets of a
codec carry at most four units, so what a packet does to the decoder can be
said in closed form (`Gives`), and what the track makes of it too (`TrackStep`).

The invariant of the video stream, `PathInv`, relates what the sender is doing,
what was lost, and what decoder and track hold:

* `Position`: `_last_seq` is the number of the last packet that arrived, so that a
  gap is seen exactly when something was lost and `_last_seq` is not 0
  (`GapIsSeen`; here `MaxLoss < SeqMod` is used).
* `Cutting`, `Collected`, `Merging`: while a unit is cut and nothing was lost in
  it, the decoder has exactly its fragments so far. Without this a whole unit
  could not be told from one that lost its middle.
* `Losses`: what the decoder can know of `torn`: a loss it saw has raised
  `_gop_dropped`, and a group that lost nothing has not, unless its key frame
  showed the loss (`shunned`). `GopIsWhole` and `OnlyTornGopsAreDropped` are its
  two directions.
* `Shown`: once the track has its parameter sets, a group that lost nothing has had
  its key frame shown. This is what relates the decoder's losses with the track,
  which knows nothing of them.

One lemma for each kind of packet (`SingleKeeps`, `AggregateKeeps`, `FirstKeeps`,
`NextKeeps`, `CutKeeps`, `UselessKeeps`, `LostKeeps`) shows that it keeps the
invariant and what the properties say of the step. The audio stream has an
invariant of its own, `AudioInv`: the buffer is what arrived under the time stamp,
and the drop flag is raised exactly when that has a gap.

`PicturesInv` is the invariant of the decoding times. `GetDtsIs` says that a call
of `getDts` does one of four things: it repeats itself, shows the picture as it is,
lets it wait, or takes the earliest out. It gives a greater time than
before for a reason that lies in pictures of several calls: some picture that
was taken out is shown before all that wait and all that are still to come, and the
last time is not beyond it plus the offset (`TimesFollow`). That the next one to
leave is such a picture again is a counting argument (`EarliestIsEarly`): more
pictures wait than a group has, those of the group that is being sent are too few,
so the earliest lies far enough back in the groups before, and the offset is no more
than half a group. A time once known stays known because no two pictures are
shown at the same time (`ShownOnce`), so each one that comes pushes one out.

Only model-checked, and why:

* `GivenUpOnlyAfterAsking` of `RtpChannel` relates the limits of two classes for
  the instance's values of both.
* `RetriesGoOn` of `NackRequests`: its invariant would have to say which states
  `recordNack` forgets, and when.
* Liveness and fairness (`DestroyEnds`, `ComesUpOverLostStun`, the liveness part of
  `LogFile`), which the prover does not handle.

## Findings and observations

Runs that show a disagreement between the code and its own comments:

1. `TwccChunks`: with `vec.resize` commented out, a vector chunk takes up to 13
   statuses before a large delta makes them two bits wide, where seven have room
   (`src/rtcp/RtcpFCI.cpp:549-563`). The trace has six arrivals, 20 ms apart
   with losses between, and then one after 200 ms.
2. `RtcContextHang`: the DTLS timer is commented out, so one lost flight of the
   client leaves the connection in CONNECTING (`src/peer/DtlsTransport.cpp:964`).

Observations met while modelling, which no run is kept for:

1. Packet 0 may wait in the buffer although it is next in line: the flush loop
   does not go from the end of the map to its start (`OnlyZeroIsHeld` names it).
2. A forced flush takes `begin()` when nothing in the map is above `next_seq`,
   also when only packets just below it wait: numbers just output, or passed,
   are output again (`src/rtp/RtpTrack.h:117-119`; therefore `ForwardOnly` speaks
   of arrivals ahead of the position only).
3. Within `_max_distance` of the wrap, a late packet or a copy that the output
   has passed is buffered as if it belonged to the next round and comes out
   again later (`src/rtp/RtpTrack.h:66`; therefore `AfterGivenUp` in
   `MayStillArrive`). When it
   stays in the map, `emplace` keeps it under a number that comes round again
   (`src/rtp/RtpTrack.h:71`).
4. `flushPacket` drops what the map holds below `next_seq` only when `next_seq` is
   at least `_max_distance` away from both ends of the number range; nearer, it
   stays (`src/rtp/RtpTrack.h:141-144`), which is how the packets of observation
   3 survive.
5. A late packet near one end of the number range, while the newest is near the
   other, is taken for a wrap by `NackContext`, which then asks for packets that
   were never sent (therefore `MaxLate = 0` in `RtpChannelNack`).
6. The first number of an `FCI_NACK` is asked for although it may have arrived.
   A late packet with the very number asked for last keeps its state and is
   asked for again: the test is `seq < _nack_seq` (`src/rtcp/RtcpNack.cpp:123`).
7. A key frame in the packet that shows a gap is output, and `_gop_dropped` is
   raised right after it: the group it starts is dropped though it is whole
   (`src/rtp/H264Rtp.cpp:41-44`; `shunned` in `OnlyTornGopsAreDropped`). For the
   same reason a slice in that packet is output although its group is torn. An
   aggregated length is compared with the end of the packet before the length
   field is skipped (`src/rtp/H264Rtp.cpp:83`).
8. A delta is cut to 16 bits: after more than 8191 ms inside a message, which
   ignored copies do not end, it is wrong (`src/rtcp/TwccContext.cpp:91`), where the comment at
   `src/rtcp/RtcpFCI.cpp:392-394` asks for a new message. A message is sent only
   when a packet arrives (`src/rtcp/TwccContext.cpp:33`).
9. The test `min <= seq || seq <= max` is always true
   (`src/rtcp/TwccContext.cpp:67`), so nothing is "jumped" except right after a
   wrap, and a number far away makes a message of thousands of statuses.
10. Parameter sets pass while a group of pictures is dropped
    (`src/media/H265Track.cpp:93`). If a sender repeats them in the middle of a
    group, slices after them are shown after the key frame was lost.
11. Comments and numbers differ: 10 s against 3 s (`src/rtp/RtpTrack.cpp:64-65`),
    5 against 10 FCIs (`src/rtcp/RtcpNack.cpp:158-159`), 2 x rtt against rtt
    (`src/rtcp/RtcpNack.cpp:267`). The models follow the code.
12. Receiver reports: base 0 stands for no packet; a packet from before a wrap
    that comes after it makes the expected number jump by 65536; a report before
    the first packet says that one is lost (all conditions of
    `FeedbackTellsTheTruth`); and `getLostInterval() << 8 / expected_interval`
    shifts by a quotient (`src/rtcp/RtcpContext.cpp:242`). A NACK names the
    source its channel was made for, a report the present one
    (`src/peer/RtcTransport.cpp:200`).
13. Answers: an audio rtpmap needs three parts, where the client's own offer
    writes two, and audio without it is dropped; an application m-line overwrites
    the type of the audio description; attributes before the first m-line are
    erased; of several candidates the last wins (`src/peer/Sdp.cpp`). A second
    answer keeps old tracks under their payload types: one that adds RTX to a
    type in use makes an RTX track without a channel, and one with another codec
    sends its packets to the first decoder (therefore `Agreed`). No RTP header
    extension is ever registered, so the rid is empty and `TwccContext::onRtp`
    is not reached in this client, although the offer announces transport-cc;
    `RtcTransport::onRtcp` is never called.
14. Logger: `_lst_lts` is not protected by the mutex. A thread that is about to drop
    its line sets it (`src/base/Log.cpp:159`) and looks at it again at line 172;
    when another thread sets it to 0 in between (line 141), the line is copied
    into the current buffer, which is the full, oldest one. It then comes before the lines
    of all other buffers, or is lost when that buffer was just written, or
    brings bytes of old lines with it when `clear` comes into `append`
    (`src/base/Log.h:126-137`). A short `fwrite` prints an error only, and the
    buffer is cleared all the same (`src/base/Log.h:140-143`): what it left over is
    lost. If a whole buffer fills up between `clear()` and
    `_prstBuf = _prstBuf->_next` (`Preempted = TRUE`), its lines are written
    after younger ones, and the comment at `src/base/Log.cpp:175`, that the
    writer is on a current buffer that is full, no longer holds. Nothing calls
    `LOG_INIT`, so the logger's thread is never started and nothing is persisted; only
    `SrtpSession.cpp` and `StunPacket.cpp` log through `Log` at all, the rest prints
    (`LOGI`, `LOGE`). `~Log` joins a thread that never ends.
15. Decoding times: without B pictures the time of the third picture goes back
    once, when the depth is learned; a loss while learning can make the depth
    too small for good, or the offset too large: then every time is cut down to
    when its picture is shown and goes back with each B picture, where the comment
    at `src/base/Stamp.cpp:75` says that this is hardly ever reached (therefore
    `Learned`). After the wrap of a 32-bit time
    stamp the earlier entries of the sorter wait for ever, where the comment at
    `src/base/Stamp.cpp:66-68` says that later ones are all greater.
16. Audio: a frame is output when the next time stamp arrives, so the last one
    waits; losses at the head or the tail of a frame are not noticed, and a gap
    right after number 0 is not either (`src/rtp/G711Rtp.cpp`). The audio
    parameters always name PCMA.
17. When the lock moves to another source, the reorder buffer and the NACK state keep
    the numbers of the one before (`src/rtp/RtpTrack.cpp:72`): the new numbering is
    compared with the old one, and what waits may come out among the new packets
    (therefore `~mixed` in `InOrder`'s theorem and in `AsksOnlyForThePast`).
18. A burst of losses beyond `_max_distance` is given up in `sortPacket` before
    `received` asks for it (`src/rtp/RtpTrack.h:73`, `src/rtp/RtpChannel.h:30-32`):
    the packets that are asked for then would come too late for the decoder. A
    burst wider than 162 packets is asked for in several calls, and may be given
    up in part before the last one (`widest` in `GivenUpOnlyAfterAsking`).

## What is not modelled

* STUN bytes, hashes, SRTP arithmetic, RTCP and RTP layout, dumps, HTTP: input,
  output and arithmetic without control that outlives a call. Their effect,
  where it matters, is a choice of the environment. Of the sdp, fields that only
  its dump reads.
* A second answer while the worker runs: the two threads race on the sdp and the
  DTLS transport without a lock, so any outcome is possible.
* `Timing`, `TimestampExtrapolator` and `RtcpContextForSend`: not on the receive
  path. `onRtcp` of `RtcTransport` and its map of SSRCs, which is only read there.
* Third-party code: `src/base/httplib.h` and `thirdParty/`.

The models cover the control of the client. Measured against all lines of the
repository they are few: of about 84 000, some 69 000 are third-party headers
(OpenSSL, libsrtp, a JSON library, cpp-httplib), and of the client's own 14 000
more than half are wire structures with their dumps, STUN and SDP texts,
certificates and accessors, where a model would repeat the code line by line and
no property tells two states apart.

## Plan

Done so far: order and repetition of packets, requests, feedback and reports,
frames of both media, decoding times, answers and tracks, the connection and its
channel, the logger; three refinements, each proved up to fairness and one of them
carried into the composition; the properties of frames and pictures, of answers
and reports by proof.
What is left, in this order:

1. `RetriesGoOn` by proof, and `GivenUpOnlyAfterAsking`, from an assumption that relates the limits
   of the reorder buffer and of NACK.
2. If the client gets a DTLS timer, `RtcContextHang` turns into a property that
   holds; if header extensions are registered, `TwccContext` belongs into
   `RtcTransport`, and the rid into its channels.

## Running

    tlc -workers 2 -config MCPacketSortor.cfg MCPacketSortor.tla
    tlapm PacketSortorProofs.tla

Each run takes less than five minutes, each proof module less than five.
