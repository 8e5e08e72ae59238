----------------------------- MODULE RtcContext -----------------------------
(***************************************************************************)
(* One connection of the client: RtcContext of src/peer/RtcContext.cpp,    *)
(* its DtlsTransport and the two threads that drive it.  The application's *)
(* thread fetches the answer, starts the connection and destroys it; the   *)
(* thread "worker" runs RtcContext::loop.  The peer and the network are    *)
(* the environment: datagrams travel in any order, and some are lost.      *)
(*                                                                         *)
(* The DTLS handshake is four flights: hello, flight, finish, done.  The   *)
(* peer repeats its flight until it is answered, as DTLS asks for.         *)
(*                                                                         *)
(* The operations of the transport are those of DtlsTransport: onDtlsData  *)
(* and the answer call them, where DtlsTransport alone allows any order.   *)
(***************************************************************************)
EXTENDS DtlsTransport

CONSTANTS
  NoVideo,     \* the fingerprint of an answer without video
  PeerCert,    \* the certificate the peer really has
  PeerSuite,   \* does the peer negotiate SRTP?
  MaxCalls,    \* bound: calls of frtcConnectSignalServer
  StunLosses,  \* bound: STUN datagrams that are lost
  DtlsLosses,  \* bound: DTLS datagrams that are lost
  Closes       \* may the peer close the connection?

ASSUME ContextAssumption ==
  /\ PeerCert \in Fingerprints /\ NoVideo \in Fingerprints
  /\ {PeerSuite, Closes} \subseteq BOOLEAN
  /\ {MaxCalls, StunLosses, DtlsLosses} \subseteq Nat

VARIABLES
  api,       \* what the application's thread does
  calls,     \* calls of frtcConnectSignalServer so far
  answer,    \* fingerprint in the first video answer, NoFingerprint before
  client,    \* _client exists
  runFlag,   \* _runFlag
  worker,    \* where the loop stands: "none", "top", "read", "tick", "ended"
  srtp,      \* _srtpSessionSend and _srtpSessionRecv: the certificate they belong to
  media,     \* an RTP packet was decrypted
  net,       \* datagrams on their way
  remote,    \* the peer's side of the handshake
  lostStun, lostDtls

apiVars == <<api, calls, answer>>
peerVars == <<remote, lostStun, lostDtls>>
vars == <<dtlsVars, apiVars, client, runFlag, worker, srtp, media, net, peerVars>>

ToClient == {"bindOk", "flight", "done", "close"}
ToPeer   == {"bind", "hello", "finish"}
Stun     == {"bind", "bindOk"}

-----------------------------------------------------------------------------
(* sendBindRequest: only with ICE data of both sides, which the local side *)
(* has from createLocalSdp on and the remote side from the answer on.      *)
BindAlways == {"bind"}
BindRequest == IF answer # NoFingerprint THEN {"bind"} ELSE {}

(* OnDtlsTransportConnected: new SRTP sessions. Nothing ever drops them.   *)
Sessions == srtp' = IF notes' = <<"connected">> THEN peer'.cert ELSE srtp

(* PeerConnection::connnectSignalServer: the HTTP request fails, or brings *)
(* an answer.  Sdp::videoDesc finds the first video description, so a      *)
(* later answer changes nothing; without one the fingerprint is "".        *)
SignalFailed ==
  /\ api = "idle" /\ calls < MaxCalls
  /\ api' = "answered" /\ calls' = calls + 1
  /\ UNCHANGED <<dtlsVars, answer, client, runFlag, worker, srtp, media, net, peerVars>>

(* A second call while the worker runs would race with it on the sdp and   *)
(* on the DTLS state; the application calls again only before that.        *)
SetRemoteSdp(fp) ==
  /\ api = "idle" /\ calls < MaxCalls
  /\ worker = "none"
  /\ api' = "answered" /\ calls' = calls + 1
  /\ answer' = IF fp # NoVideo THEN fp ELSE answer
  /\ SetRemoteFingerprint(fp)
  /\ Sessions
  /\ UNCHANGED <<client, runFlag, worker, media, net, peerVars>>

(* startConnectPeer: socket and thread once, a binding request each time. *)
NewSocketAlways == ~client
NewSocket == ~client /\ answer # NoFingerprint

StartConnectPeer ==
  /\ api = "answered"
  /\ api' = "idle"
  /\ client' = (client \/ NewSocket)
  /\ worker' = IF NewSocket THEN "top" ELSE worker
  /\ net' = net \union BindRequest
  /\ UNCHANGED <<dtlsVars, calls, answer, runFlag, srtp, media, peerVars>>

(* frtcDestoryCtx: stop(), and then the destructor joins the thread. *)
Stop ==
  /\ api = "idle"
  /\ api' = "joining"
  /\ runFlag' = FALSE
  /\ UNCHANGED <<dtlsVars, calls, answer, client, worker, srtp, media, net, peerVars>>

Joined == worker \in {"none", "ended"}

Destroy ==
  /\ api = "joining"
  /\ Joined
  /\ api' = "gone"
  /\ UNCHANGED <<dtlsVars, calls, answer, client, runFlag, worker, srtp, media, net, peerVars>>

-----------------------------------------------------------------------------
(* The worker: while (_runFlag) { read; every 5 s a binding request }      *)
LoopGoesOn == TRUE
LoopMayRun == runFlag

LoopTop ==
  /\ worker = "top"
  /\ worker' = IF LoopMayRun THEN "read" ELSE "ended"
  /\ UNCHANGED <<dtlsVars, apiVars, client, runFlag, srtp, media, net, peerVars>>

(* Nothing comes for 200 ms. *)
ReadTimeout ==
  /\ worker = "read"
  /\ worker' = "tick"
  /\ UNCHANGED <<dtlsVars, apiVars, client, runFlag, srtp, media, net, peerVars>>

(* dispatchPeerData: any STUN datagram runs the handshake. *)
OnIceData == Run("client") \/ RunSameRole("client")

(* OpenSSL answers the flight it waits for, and ends with the done flight. *)
OnFlight == Progress \/ DropData
OnDone ==
  \/ HandshakeDone([cert |-> PeerCert, suite |-> PeerSuite], <<>>)
  \/ DropData
OnClose == Ended \/ DropData

AcceptsMedia == srtp = PeerCert

Dispatch(m) ==
  /\ CASE m = "bindOk" -> OnIceData
       [] m = "flight" -> OnFlight
       [] m = "done"   -> OnDone
       [] m = "close"  -> OnClose
       [] m = "rtp"    -> UNCHANGED dtlsVars
  /\ Sessions
  /\ media' = (media \/ (m = "rtp" /\ AcceptsMedia))

(* What the dispatch makes the client send: hello once for each Run, since *)
(* the timer that would repeat it is commented out in SetTimeout; finish   *)
(* for each flight, though OpenSSL need not answer a repeated one.         *)
Sends(m) ==
  CASE m = "bindOk" /\ localRole # "client"     -> {"hello"}
    [] m = "flight" /\ state = "connecting" /\ ~handshakeDone -> {"finish"}
    [] OTHER -> {}

(* Once the peer's handshake is done its media never ends. *)
Media    == IF remote \in {"done", "closed"} THEN {"rtp"} ELSE {}
Arriving == (net \intersect ToClient) \union Media

Read ==
  /\ worker = "read"
  /\ worker' = "tick"
  /\ \E m \in Arriving :
       /\ Dispatch(m)
       /\ net' = (net \ {m}) \union Sends(m)
  /\ UNCHANGED <<apiVars, client, runFlag, peerVars>>

KeepaliveSilent(due) ==
  /\ worker = "tick" /\ worker' = "top"
  /\ UNCHANGED <<dtlsVars, apiVars, client, runFlag, srtp, media, net, peerVars>>

Keepalive(due) ==
  /\ worker = "tick"
  /\ worker' = "top"
  /\ net' = IF due THEN net \union BindRequest ELSE net
  /\ UNCHANGED <<dtlsVars, apiVars, client, runFlag, srtp, media, peerVars>>

-----------------------------------------------------------------------------
(* The peer answers what reaches it, and may close when done.  A datagram  *)
(* that is in the network twice counts once.                               *)
PeerReceives(m) ==
  /\ m \in net
  /\ CASE m = "bind" -> net' = (net \ {m}) \union {"bindOk"} /\ UNCHANGED remote
       [] m = "hello" /\ remote = "wait" ->
            net' = (net \ {m}) \union {"flight"} /\ remote' = "flight"
       [] m = "finish" /\ remote = "flight" ->
            net' = (net \ {m}) \union {"done"} /\ remote' = "done"
       [] OTHER -> net' = net \ {m} /\ UNCHANGED remote
  /\ UNCHANGED <<dtlsVars, apiVars, client, runFlag, worker, srtp, media>>
  /\ UNCHANGED <<lostStun, lostDtls>>

PeerSends(m) ==
  /\ \/ m = "flight" /\ remote = "flight" /\ UNCHANGED remote
     \/ m = "close" /\ remote = "done" /\ Closes /\ remote' = "closed"
  /\ net' = net \union {m}
  /\ UNCHANGED <<dtlsVars, apiVars, client, runFlag, worker, srtp, media>>
  /\ UNCHANGED <<lostStun, lostDtls>>

Lose(m) ==
  /\ m \in net
  /\ net' = net \ {m}
  /\ IF m \in Stun
     THEN lostStun < StunLosses /\ lostStun' = lostStun + 1 /\ UNCHANGED lostDtls
     ELSE lostDtls < DtlsLosses /\ lostDtls' = lostDtls + 1 /\ UNCHANGED lostStun
  /\ UNCHANGED <<dtlsVars, apiVars, client, runFlag, worker, srtp, media, remote>>

ContextInit ==
  /\ Init
  /\ api = "idle" /\ calls = 0 /\ answer = NoFingerprint
  /\ client = FALSE /\ runFlag = TRUE /\ worker = "none"
  /\ srtp = NoFingerprint /\ media = FALSE
  /\ net = {} /\ remote = "wait" /\ lostStun = 0 /\ lostDtls = 0

ContextNext ==
  \/ SignalFailed
  \/ \E fp \in Fingerprints : SetRemoteSdp(fp)
  \/ StartConnectPeer
  \/ Stop
  \/ Destroy
  \/ LoopTop
  \/ ReadTimeout
  \/ Read
  \/ \E due \in BOOLEAN : Keepalive(due)
  \/ \E m \in ToPeer : PeerReceives(m)
  \/ \E m \in ToClient : PeerSends(m)
  \/ \E m \in ToClient \union ToPeer : Lose(m)

ContextSpec == ContextInit /\ [][ContextNext]_vars

(* The threads run, 5 seconds pass again and again, and a datagram that is *)
(* sent often enough is delivered.                                         *)
Fairness ==
  /\ WF_vars(StartConnectPeer) /\ WF_vars(Destroy)
  /\ WF_vars(LoopTop) /\ WF_vars(Read \/ ReadTimeout)
  /\ SF_vars(Keepalive(TRUE)) /\ WF_vars(\E due \in BOOLEAN : Keepalive(due))
  /\ \A m \in ToPeer : SF_vars(PeerReceives(m))
  /\ SF_vars(PeerSends("flight"))
  /\ \A m \in {"bindOk", "flight", "done"} :
       SF_vars(m \in net /\ Read /\ m \notin net')

FairSpec == ContextSpec /\ Fairness
-----------------------------------------------------------------------------
ContextTypeOK ==
  /\ TypeOK
  /\ api \in {"idle", "answered", "joining", "gone"} /\ calls \in 0 .. MaxCalls
  /\ answer \in Fingerprints \union {NoFingerprint}
  /\ client \in BOOLEAN /\ runFlag \in BOOLEAN /\ media \in BOOLEAN
  /\ worker \in {"none", "top", "read", "tick", "ended"}
  /\ worker # "none" <=> client
  /\ client => answer # NoFingerprint
  /\ srtp \in Fingerprints \union {NoFingerprint}
  /\ net \subseteq ToClient \union ToPeer
  /\ remote \in {"wait", "flight", "done", "closed"}
  /\ lostStun \in 0 .. StunLosses /\ lostDtls \in 0 .. DtlsLosses

(***************************************************************************)
(* Media is decrypted only with keys of the peer the answer names, however *)
(* datagrams are reordered, the peer closes, or the handshake is started   *)
(* again by a later STUN datagram: the sessions outlive the transport.     *)
(***************************************************************************)
MediaIsFromTheAnsweredPeer ==
  /\ srtp # NoFingerprint => srtp = answer
  /\ media => answer = PeerCert /\ PeerSuite

(***************************************************************************)
(* Nothing is sent before there is a socket, whatever the answer lacked    *)
(* (send() does not check _client).                                        *)
(***************************************************************************)
SendsNeedASocket == net \intersect ToPeer # {} => client

(***************************************************************************)
(* frtcDestoryCtx returns: the loop sees the flag, at the latest after the *)
(* read timeout, wherever it stands in a handshake.                        *)
(***************************************************************************)
DestroyEnds == api = "joining" ~> api = "gone"

(***************************************************************************)
(* A connection to the peer of the answer comes up though STUN datagrams   *)
(* are lost, reordered or repeated, because the loop repeats the binding   *)
(* request; unless the application stops it, the peer closes, or a DTLS    *)
(* datagram is lost.                                                       *)
(***************************************************************************)
Wanted == client /\ answer = PeerCert /\ PeerSuite
Up     == srtp = PeerCert \/ ~runFlag

ComesUpOverLostStun == Wanted ~> Up \/ remote = "closed" \/ lostDtls > 0

(***************************************************************************)
(* With "DTLS timer set in ... ms" (DtlsTransport.cpp:962), which stands   *)
(* for repeating a handshake flight, it comes up over lost DTLS datagrams  *)
(* too.                                                                    *)
(***************************************************************************)
ComesUp == Wanted ~> Up \/ remote = "closed"
=============================================================================
