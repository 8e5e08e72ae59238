--------------------------- MODULE RtcContextProofs ---------------------------
(***************************************************************************)
(* Safety of a connection, for any set of fingerprints, any answer, any    *)
(* number of calls and any losses: whose keys open media, and that nothing *)
(* is sent without a socket.                                               *)
(* The same for its DTLS transport, on its own and inside a connection.    *)
(***************************************************************************)
EXTENDS RtcContext, TLAPS

(***************************************************************************)
(* The DTLS state machine by itself.                                       *)
(***************************************************************************)
DtlsInv == TypeOK /\ RoleWhileRunning /\ DoneIsProcessed /\ ListenerKnowsState

(* A transport starts with no role, no peer and nothing told. *)
LEMMA DtlsInitInv == Init => DtlsInv
  BY DtlsAssumption
  DEF Init, DtlsInv, TypeOK, RoleWhileRunning, DoneIsProcessed, ListenerKnowsState,
      IsRunning, States, Roles, Peers

(* Processing a handshake that is done ends connected, or reset and failed. *)
LEMMA ProcessHandshakeInv ==
  ASSUME NEW fp \in Fingerprints, NEW p \in Peers,
         NEW more,
         DtlsInv, IsRunning, ProcessHandshake(fp, p, more),
         remoteFingerprint' \in Fingerprints \union {NoFingerprint}
  PROVE  DtlsInv'
<1>1. CASE Verified(fp, p)
  <2>1. /\ state' = "connected" /\ handshakeDone' = TRUE /\ peer' = p
        /\ localRole' = localRole /\ told' = "connected"
    BY <1>1 DEF ProcessHandshake, NotifyThen
  <2>2. p # NoPeer
    BY DtlsAssumption DEF Peers
  <2> QED
    BY <2>1, <2>2
    DEF DtlsInv, TypeOK, RoleWhileRunning, DoneIsProcessed, ListenerKnowsState,
        IsRunning, States, Roles
<1>2. CASE ~Verified(fp, p)
  BY <1>2
  DEF ProcessHandshake, Reset, Notify, DtlsInv, TypeOK, RoleWhileRunning,
      DoneIsProcessed, ListenerKnowsState, IsRunning, States, Roles
<1> QED
  BY <1>1, <1>2

(* Every call and every event of OpenSSL keeps the invariants. *)
LEMMA DtlsNextInv == DtlsInv /\ [Next]_dtlsVars => DtlsInv'
<1> SUFFICES ASSUME DtlsInv, [Next]_dtlsVars PROVE DtlsInv'
  OBVIOUS
<1> USE DEF DtlsInv, TypeOK, RoleWhileRunning, DoneIsProcessed, ListenerKnowsState,
            IsRunning, States, Roles
<1>1. ASSUME NEW role \in Roles, Run(role) PROVE DtlsInv'
  BY <1>1, DtlsAssumption DEF Run, Notify
<1>2. ASSUME NEW role \in Roles, RunSameRole(role) PROVE DtlsInv'
  BY <1>2 DEF RunSameRole, Silent
<1>3. ASSUME NEW fp \in Fingerprints, SetRemoteFingerprint(fp) PROVE DtlsInv'
  <2>1. CASE Late(fp)
    <3>1. ProcessHandshake(fp, peer, <<>>) /\ remoteFingerprint' = fp
      BY <1>3, <2>1 DEF SetRemoteFingerprint
    <3>2. peer \in Peers /\ IsRunning
      BY <2>1 DEF Late
    <3> HIDE DEF DtlsInv, IsRunning
    <3> QED
      BY <3>1, <3>2, ProcessHandshakeInv
  <2>2. CASE ~Late(fp)
    BY <1>3, <2>2 DEF SetRemoteFingerprint, Late, Silent
  <2> QED
    BY <2>1, <2>2
<1>4. CASE DropData
  BY <1>4 DEF DropData, Silent
<1>5. CASE Progress
  BY <1>5 DEF Progress, Silent
<1>6. ASSUME NEW p \in Peers, NEW more \in {<<>>, <<"data">>},
             HandshakeDone(p, more)
      PROVE  DtlsInv'
  <2>1. CASE First /\ remoteFingerprint # NoFingerprint
    <3>1. /\ ProcessHandshake(remoteFingerprint, p, more) /\ IsRunning
          /\ remoteFingerprint' = remoteFingerprint
          /\ remoteFingerprint \in Fingerprints
      BY <1>6, <2>1 DEF HandshakeDone
    <3> HIDE DEF DtlsInv, IsRunning
    <3> QED
      BY <3>1, ProcessHandshakeInv
  <2>2. CASE ~(First /\ remoteFingerprint # NoFingerprint)
    <3>1. p # NoPeer
      BY DtlsAssumption DEF Peers
    <3> QED
      BY <1>6, <2>2, <3>1 DEF HandshakeDone, First
  <2> QED
    BY <2>1, <2>2
<1>7. CASE ApplicationData
  BY <1>7 DEF ApplicationData
<1>8. CASE Ended
  BY <1>8 DEF Ended, EndedState, Reset, Notify
<1>9. CASE UNCHANGED dtlsVars
  BY <1>9 DEF dtlsVars
<1> QED
  BY <1>1, <1>2, <1>3, <1>4, <1>5, <1>6, <1>7, <1>8, <1>9 DEF Next

(* The four invariants hold in every state, for any set of fingerprints. *)
THEOREM DtlsInvariants == Spec => []DtlsInv
  BY DtlsInitInv, DtlsNextInv, PTL DEF Spec

(* States, roles, peers and fingerprints keep their types, and a handshake  *)
(* is done exactly while there is a peer it was done with, whatever is      *)
(* called and whatever OpenSSL reports, in any order.                       *)
THEOREM TransportTypeCorrect == Spec => []TypeOK
<1>1. DtlsInv => TypeOK
  BY DEF DtlsInv
<1> QED
  BY <1>1, DtlsInvariants, PTL

(* A done handshake never waits: it is processed as soon as the            *)
(* fingerprint of the remote sdp is known, whichever comes first           *)
(* (SetRemoteFingerprint and CheckStatus).                                 *)
THEOREM HandshakesAreProcessed == Spec => []DoneIsProcessed
<1>1. DtlsInv => DoneIsProcessed
  BY DEF DtlsInv
<1> QED
  BY <1>1, DtlsInvariants, PTL

(* A role never outlives its run, so Run is never refused for good. *)
THEOREM RolesEndWithTheRun == Spec => []RoleWhileRunning
<1>1. DtlsInv => RoleWhileRunning
  BY DEF DtlsInv
<1> QED
  BY <1>1, DtlsInvariants, PTL

-----------------------------------------------------------------------------
(* What refines Listener!keyedFor. *)
KeyedFor == IF state = "connected" THEN peer ELSE NoPeer

(* Processing a handshake is Establish for the peer that was verified, or Fail. *)
LEMMA ProcessHandshakeRefines ==
  ASSUME NEW fp \in Fingerprints, NEW p \in Peers,
         NEW more,
         DtlsInv, state = "connecting", ProcessHandshake(fp, p, more),
         remoteFingerprint' = fp, fp \in {remoteFingerprint} \union Fingerprints,
         more \in {<<>>, <<"data">>}
  PROVE  Listener!Next
<1>1. told = "connecting"
  BY DEF DtlsInv, ListenerKnowsState
<1>2. CASE Verified(fp, p)
  <2>1. /\ state' = "connected" /\ told' = "connected" /\ peer' = p
        /\ notes' = <<"connected">> \o more
    BY <1>2 DEF ProcessHandshake, NotifyThen
  <2>2. HandsOutKeys'
    BY <2>1 DEF HandsOutKeys
  <2>3. Listener!Establish(p)
    BY <1>1, <1>2, <2>1, <2>2 DEF Listener!Establish, Listener!Tell, Verified
  <2>4. QED
    BY <2>3 DEF Listener!Next
<1>3. CASE ~Verified(fp, p)
  <2>1. /\ state' = "failed" /\ told' = "failed" /\ notes' = <<"failed">>
    BY <1>3 DEF ProcessHandshake, Reset, Notify
  <2>2. ~HandsOutKeys'
    BY <2>1 DEF HandsOutKeys
  <2>3. Listener!Fail
    BY <1>1, <2>1, <2>2 DEF Listener!Fail, Listener!Tell, HandsOutKeys
  <2>4. QED
    BY <2>3 DEF Listener!Next
<1>4. QED
  BY <1>2, <1>3

(* Steps that tell the listener nothing about the connection. *)
LEMMA NothingToldRefines ==
  ASSUME UNCHANGED <<state, told, remoteFingerprint>>, KeyedFor' = KeyedFor,
         notes' \in {<<>>, <<"data">>}
  PROVE  Listener!Next
<1>1. ~HandsOutKeys'
  BY DEF HandsOutKeys
<1>2. Listener!GoOn
  BY <1>1 DEF Listener!GoOn, HandsOutKeys, KeyedFor
<1>3. QED
  BY <1>2 DEF Listener!Next

(* Every call and every event of OpenSSL is a step of the SecureChannel. *)
LEMMA StepRefines ==
  ASSUME DtlsInv, Next
  PROVE  Listener!Next
<1>1. ASSUME NEW role \in Roles, Run(role) PROVE Listener!Next
  <2>1. state' = "connecting" /\ told' = "connecting" /\ notes' = <<"connecting">>
    BY <1>1 DEF Run, Notify
  <2>2. ~HandsOutKeys'
    BY <2>1 DEF HandsOutKeys
  <2>3. Listener!Start
    BY <1>1, <2>1, <2>2 DEF Run, Listener!Start, Listener!Tell, HandsOutKeys
  <2>4. QED
    BY <2>3 DEF Listener!Next
<1>2. ASSUME NEW role \in Roles, RunSameRole(role) PROVE Listener!Next
  BY <1>2, NothingToldRefines DEF RunSameRole, Silent, KeyedFor
<1>3. CASE DropData \/ Progress
  BY <1>3, NothingToldRefines DEF DropData, Progress, Silent, KeyedFor
<1>4. CASE ApplicationData
  BY <1>4, NothingToldRefines DEF ApplicationData, KeyedFor
<1>5. ASSUME NEW fp \in Fingerprints, SetRemoteFingerprint(fp) PROVE Listener!Next
  <2>1. CASE Late(fp)
    <3>1. peer \in Peers /\ state = "connecting"
      BY <2>1 DEF Late, DtlsInv, TypeOK, RoleWhileRunning, IsRunning
    <3>2. ProcessHandshake(fp, peer, <<>>) /\ remoteFingerprint' = fp
      BY <1>5, <2>1 DEF SetRemoteFingerprint
    <3>3. QED
      BY <3>1, <3>2, ProcessHandshakeRefines
  <2>2. CASE ~Late(fp)
    <3>1. /\ notes' = <<>> /\ remoteFingerprint' = fp
          /\ UNCHANGED <<state, told, peer>>
      BY <1>5, <2>2 DEF SetRemoteFingerprint, Silent
    <3>2. ~HandsOutKeys'
      BY <3>1 DEF HandsOutKeys
    <3>3. Listener!Announce(fp)
      BY <3>1, <3>2 DEF Listener!Announce, HandsOutKeys
    <3>4. QED
      BY <3>3 DEF Listener!Next
  <2>3. QED
    BY <2>1, <2>2
<1>6. ASSUME NEW p \in Peers, NEW more \in {<<>>, <<"data">>},
             handshakeDone => p = peer, HandshakeDone(p, more)
      PROVE  Listener!Next
  <2>1. CASE First /\ remoteFingerprint # NoFingerprint
    <3>1. remoteFingerprint \in Fingerprints /\ state = "connecting"
      BY <1>6, <2>1
      DEF HandshakeDone, First, IsRunning, DtlsInv, TypeOK, RoleWhileRunning
    <3>2. ProcessHandshake(remoteFingerprint, p, more) /\ remoteFingerprint' = remoteFingerprint
      BY <1>6, <2>1 DEF HandshakeDone
    <3>3. QED
      BY <3>1, <3>2, ProcessHandshakeRefines
  <2>2. CASE ~(First /\ remoteFingerprint # NoFingerprint)
    <3>1. /\ notes' = more /\ peer' = p
          /\ UNCHANGED <<state, told, remoteFingerprint>>
      BY <1>6, <2>2 DEF HandshakeDone
    <3>2. KeyedFor' = KeyedFor
      BY <1>6, <3>1 DEF KeyedFor, DtlsInv, RoleWhileRunning
    <3>3. QED
      BY <3>1, <3>2, NothingToldRefines
  <2>3. QED
    BY <2>1, <2>2
<1>7. CASE Ended
  <2>1. told = state
    BY DEF DtlsInv, ListenerKnowsState
  <2>2. /\ state' = EndedState /\ told' = EndedState /\ notes' = <<EndedState>>
        /\ remoteFingerprint' = remoteFingerprint
    BY <1>7 DEF Ended, Reset, Notify
  <2>3. ~HandsOutKeys' /\ state' # "connected"
    BY <2>2 DEF HandsOutKeys, EndedState
  <2>4. CASE state = "connected"
    <3>1. Listener!Close
      BY <2>2, <2>3, <2>4
      DEF Listener!Close, Listener!Tell, HandsOutKeys, EndedState
    <3>2. QED
      BY <3>1 DEF Listener!Next
  <2>5. CASE state = "connecting"
    <3>1. Listener!Fail
      BY <2>2, <2>3, <2>5
      DEF Listener!Fail, Listener!Tell, HandsOutKeys, EndedState
    <3>2. QED
      BY <3>1 DEF Listener!Next
  <2>6. QED
    BY <1>7, <2>4, <2>5 DEF Ended, IsRunning
<1>8. QED
  BY <1>1, <1>2, <1>3, <1>4, <1>5, <1>6, <1>7 DEF Next

(* Whoever listens to the transport sees a SecureChannel: keys once for    *)
(* each run and for a verified peer only (ExtractSrtpKeys is reached from  *)
(* CheckStatus and from SetRemoteFingerprint), every change told, closed   *)
(* only after connected.                                                   *)
THEOREM TransportIsASecureChannel == Spec => IsSecureChannel
<1>1. Init => Listener!Init
  BY DEF Init, Listener!Init, HandsOutKeys
<1>2. DtlsInv /\ [Next]_dtlsVars => [Listener!Next]_Listener!channelVars
  <2>1. ASSUME DtlsInv, Next PROVE Listener!Next
    BY <2>1, StepRefines
  <2>2. ASSUME UNCHANGED dtlsVars PROVE UNCHANGED Listener!channelVars
    BY <2>2 DEF dtlsVars, Listener!channelVars, HandsOutKeys
  <2>3. QED
    BY <2>1, <2>2
<1>3. QED
  BY <1>1, <1>2, DtlsInvariants, PTL DEF Spec, IsSecureChannel, Listener!Spec

-----------------------------------------------------------------------------
(***************************************************************************)
(* The connection around it.                                               *)
(***************************************************************************)
(* What OpenSSL holds is the peer at the other end, or nothing. *)
ThePeer == [cert |-> PeerCert, suite |-> PeerSuite]
Trusted == answer = PeerCert /\ PeerSuite

PeerOnly == peer \in {NoPeer, ThePeer}

(* Until the thread runs, no datagram has reached the transport. *)
Untouched ==
  worker = "none" =>
    /\ state = "new" /\ localRole = "none" /\ ~handshakeDone /\ notes = <<>>
    /\ srtp = NoFingerprint /\ ~media

(* An answer is followed by the call that makes the socket; so no second   *)
(* answer can come between the two, and the transport keeps the first.     *)
Started == answer # NoFingerprint => client \/ api = "answered"
Announced == answer # NoFingerprint => remoteFingerprint = answer

ConnectedIsTrusted == state = "connected" => Trusted /\ peer = ThePeer
ToldWhileConnected == notes = <<"connected">> => state = "connected"
KeysAreTrusted ==
  /\ srtp \in {NoFingerprint, PeerCert}
  /\ srtp # NoFingerprint \/ media => Trusted

Transport == PeerOnly /\ ConnectedIsTrusted /\ ToldWhileConnected
Threads == Untouched /\ Started /\ Announced

IInv == ContextTypeOK /\ Transport /\ Threads /\ KeysAreTrusted /\ SendsNeedASocket

-----------------------------------------------------------------------------
(* Notes that say one thing are the same when they say the same. *)
LEMMA NotesDiffer ==
  /\ <<>> # <<"connected">>
  /\ \A note : <<note>> = <<"connected">> => note = "connected"
<1>1. <<>> # <<"connected">>
  OBVIOUS
<1>2. ASSUME NEW note, <<note>> = <<"connected">> PROVE note = "connected"
  <2>1. <<note>>[1] = <<"connected">>[1]
    BY <1>2
  <2>2. QED
    BY <2>1
<1>3. QED
  BY <1>1, <1>2

(* The bounds are numbers, and the answers NoFingerprint and NoPeer are    *)
(* none of the others.                                                     *)
LEMMA ConstantsAreApart ==
  /\ MaxCalls \in Nat /\ StunLosses \in Nat /\ DtlsLosses \in Nat
  /\ PeerCert # NoFingerprint
  /\ ThePeer \in Peers /\ ThePeer # NoPeer /\ ThePeer.cert = PeerCert
  BY ContextAssumption, DtlsAssumption DEF ThePeer, Peers

(* A new context has no socket, no thread and no keys. *)
LEMMA InitInv == ContextInit => IInv
<1> SUFFICES ASSUME ContextInit PROVE IInv
  OBVIOUS
<1> USE ContextAssumption, DtlsAssumption
<1>1. ContextTypeOK
  <2>1. TypeOK
    BY DEF ContextInit, Init, TypeOK, States, Roles, Peers
  <2>2. calls \in 0 .. MaxCalls /\ lostStun \in 0 .. StunLosses /\ lostDtls \in 0 .. DtlsLosses
    BY ConstantsAreApart DEF ContextInit
  <2>3. QED
    BY <2>1, <2>2 DEF ContextInit, ContextTypeOK
<1>2. Transport /\ Threads /\ KeysAreTrusted
  BY DEF ContextInit, Init, Transport, PeerOnly, ConnectedIsTrusted,
         ToldWhileConnected, Threads, Untouched, Started, Announced, KeysAreTrusted
<1>3. SendsNeedASocket
  BY DEF ContextInit, SendsNeedASocket
<1> QED
  BY <1>1, <1>2, <1>3 DEF IInv

-----------------------------------------------------------------------------
(* What a datagram does to the transport. *)
DtlsTypes == TypeOK /\ Transport

(* A handshake that is done, with the certificate of the peer: connected   *)
(* only when that is the one of the answer.                                *)
LEMMA OnDoneInv ==
  ASSUME DtlsTypes, OnDone, answer # NoFingerprint, Announced, UNCHANGED answer,
         answer \in Fingerprints
  PROVE  DtlsTypes'
<1> USE ContextAssumption, DtlsAssumption, NotesDiffer
        DEF DtlsTypes, Transport, PeerOnly, ConnectedIsTrusted, ToldWhileConnected,
            TypeOK, States, Roles, Peers, ThePeer
<1>0. ThePeer \in Peers /\ ThePeer # NoPeer
  BY DEF ThePeer, Peers
<1>1. CASE DropData
  BY <1>1 DEF DropData, Silent, Trusted
<1>2. CASE HandshakeDone(ThePeer, <<>>)
  <2>1. CASE First
    <3>1. ProcessHandshake(answer, ThePeer, <<>>) /\ remoteFingerprint' = answer
      BY <1>2, <2>1 DEF HandshakeDone, Announced
    <3>2. CASE Verified(answer, ThePeer)
      <4>1. Trusted
        BY <3>2 DEF Verified, ThePeer, Trusted
      <4>2. QED
        BY <1>0, <3>1, <3>2, <4>1
        DEF ProcessHandshake, NotifyThen, Trusted
    <3>3. CASE ~Verified(answer, ThePeer)
      BY <3>1, <3>3 DEF ProcessHandshake, Reset, Notify
    <3>4. QED
      BY <3>2, <3>3
  <2>2. CASE ~First
    BY <1>0, <1>2, <2>2 DEF HandshakeDone, First, Trusted
  <2>3. QED
    BY <2>1, <2>2
<1>3. QED
  BY <1>1, <1>2 DEF OnDone, ThePeer

(* Every other datagram starts the transport, leaves it or ends it. *)
LEMMA OnOtherDataInv ==
  ASSUME DtlsTypes, OnIceData \/ OnFlight \/ OnClose, UNCHANGED answer
  PROVE  DtlsTypes'
<1> USE ContextAssumption, DtlsAssumption, NotesDiffer
        DEF DtlsTypes, Transport, PeerOnly, ConnectedIsTrusted, ToldWhileConnected,
            TypeOK, States, Roles, Peers, ThePeer, Trusted
<1>1. CASE OnIceData
  BY <1>1 DEF OnIceData, Run, RunSameRole, Notify, Silent
<1>2. CASE OnFlight
  BY <1>2 DEF OnFlight, Progress, DropData, Silent
<1>3. CASE OnClose
  <2>1. CASE Ended
    <3>1. PICK to \in {"closed", "failed"} : Reset(to) /\ Notify(to)
      BY <2>1 DEF Ended, EndedState
    <3>2. notes' # <<"connected">>
      BY <3>1 DEF Notify
    <3>3. UNCHANGED remoteFingerprint
      BY <2>1 DEF Ended
    <3>4. QED
      BY <3>1, <3>2, <3>3 DEF Reset, Notify
  <2>2. CASE DropData
    BY <2>2 DEF DropData, Silent
  <2>3. QED
    BY <1>3, <2>1, <2>2 DEF OnClose
<1>4. QED
  BY <1>1, <1>2, <1>3

(* No datagram changes what was announced. *)
LEMMA AnnouncedFrame ==
  ASSUME NEW m \in ToClient \union {"rtp"}, Dispatch(m),
         Announced, answer # NoFingerprint, UNCHANGED answer
  PROVE  Announced'
<1>1. remoteFingerprint' = remoteFingerprint
  BY DEF ToClient, Dispatch, dtlsVars, OnIceData, OnFlight, OnDone, OnClose,
         Run, RunSameRole, Progress, DropData,
         HandshakeDone, Ended
<1>2. QED
  BY <1>1 DEF Announced

(* Whatever arrives keeps the types, and the keys those of the peer. *)
LEMMA DispatchInv ==
  ASSUME DtlsTypes, KeysAreTrusted, Announced,
         answer \in Fingerprints, media \in BOOLEAN,
         UNCHANGED answer,
         NEW m \in ToClient \union {"rtp"}, Dispatch(m)
  PROVE  DtlsTypes' /\ KeysAreTrusted' /\ media' \in BOOLEAN /\ srtp' \in Fingerprints \union {NoFingerprint}
<1> USE ContextAssumption, DtlsAssumption
<1>1. DtlsTypes'
  <2>1. CASE m = "rtp"
    BY <2>1 DEF Dispatch, dtlsVars, DtlsTypes, Transport, PeerOnly, ConnectedIsTrusted,
                ToldWhileConnected, TypeOK, Trusted
  <2>2. CASE m = "done"
    BY <2>2, OnDoneInv DEF Dispatch
  <2>3. CASE m \in {"bindOk", "flight", "close"}
    BY <2>3, OnOtherDataInv DEF Dispatch
  <2>4. QED
    BY <2>1, <2>2, <2>3 DEF ToClient
<1>2. Sessions /\ media' = (media \/ (m = "rtp" /\ AcceptsMedia))
  BY DEF Dispatch
<1>3. media' \in BOOLEAN /\ (media' => media \/ srtp = PeerCert)
  BY <1>2 DEF AcceptsMedia
<1>4. CASE notes' = <<"connected">>
  <2>1. srtp' = peer'.cert /\ Trusted' /\ peer' = ThePeer
    BY <1>1, <1>2, <1>4
    DEF Sessions, DtlsTypes, Transport, ToldWhileConnected, ConnectedIsTrusted, ThePeer
  <2>2. srtp' = PeerCert
    BY <2>1 DEF ThePeer
  <2>3. QED
    BY <1>1, <1>3, <2>1, <2>2 DEF KeysAreTrusted
<1>5. CASE notes' # <<"connected">>
  BY <1>1, <1>2, <1>3, <1>5 DEF Sessions, KeysAreTrusted, Trusted
<1>6. QED
  BY <1>4, <1>5

-----------------------------------------------------------------------------
(* Calls and steps that leave the transport alone leave its part alone. *)
LEMMA TransportFrame ==
  ASSUME DtlsTypes, UNCHANGED <<dtlsVars, answer>>
  PROVE  DtlsTypes'
  BY DEF dtlsVars, DtlsTypes, Transport, PeerOnly, ConnectedIsTrusted,
         ToldWhileConnected, ThePeer, Trusted, TypeOK, Peers

(* The calls of the application. *)
LEMMA ApplicationInv ==
  ASSUME IInv,
         SignalFailed \/ (\E fp \in Fingerprints : SetRemoteSdp(fp))
           \/ StartConnectPeer \/ Stop \/ Destroy
  PROVE  IInv'
<1> USE ConstantsAreApart, ContextAssumption, DtlsAssumption
        DEF IInv, ContextTypeOK, DtlsTypes, Threads, Untouched, Started, Announced,
            KeysAreTrusted, Trusted, SendsNeedASocket,
            apiVars, peerVars
<1>1. CASE SignalFailed
  <2>1. DtlsTypes'
    BY <1>1, TransportFrame DEF SignalFailed
  <2>2. QED
    BY <1>1, <2>1 DEF SignalFailed, dtlsVars
<1>2. ASSUME NEW fp \in Fingerprints, SetRemoteSdp(fp) PROVE IInv'
  <2>1. ~client /\ answer = NoFingerprint /\ ~handshakeDone /\ srtp = NoFingerprint
    BY <1>2 DEF SetRemoteSdp
  <2>2. /\ remoteFingerprint' = fp /\ notes' = <<>>
        /\ UNCHANGED <<state, localRole, handshakeDone, peer, told>>
    BY <1>2, <2>1 DEF SetRemoteSdp, SetRemoteFingerprint, Late, Silent
  <2>3. DtlsTypes'
    BY <1>2, <2>1, <2>2, NotesDiffer
    DEF Transport, PeerOnly, ConnectedIsTrusted, ToldWhileConnected,
        ThePeer, TypeOK, Peers
  <2>4. srtp' = NoFingerprint
    BY <1>2, <2>1, <2>2, NotesDiffer DEF SetRemoteSdp, Sessions
  <2>5. QED
    BY <1>2, <2>1, <2>2, <2>3, <2>4 DEF SetRemoteSdp
<1>3. CASE StartConnectPeer
  <2>1. DtlsTypes'
    BY <1>3, TransportFrame DEF StartConnectPeer
  <2>2. client' <=> client \/ answer # NoFingerprint
    BY <1>3 DEF StartConnectPeer, NewSocket
  <2>3. net' \subseteq ToClient \union ToPeer /\ (net' \intersect ToPeer # {} => client')
    BY <1>3, <2>2 DEF StartConnectPeer, BindRequest, ToPeer
  <2>4. worker' = (IF NewSocket THEN "top" ELSE worker) /\ (NewSocket => worker = "none")
    BY <1>3 DEF StartConnectPeer, NewSocket
  <2>5. QED
    BY <1>3, <2>1, <2>2, <2>3, <2>4 DEF StartConnectPeer, NewSocket, dtlsVars
<1>4. CASE Stop
  <2>1. DtlsTypes'
    BY <1>4, TransportFrame DEF Stop
  <2>2. QED
    BY <1>4, <2>1 DEF Stop, dtlsVars
<1>5. CASE Destroy
  <2>1. DtlsTypes'
    BY <1>5, TransportFrame DEF Destroy
  <2>2. QED
    BY <1>5, <2>1 DEF Destroy, Joined, dtlsVars
<1>6. QED
  BY <1>1, <1>2, <1>3, <1>4, <1>5

(* The steps of the worker. *)
LEMMA WorkerInv ==
  ASSUME IInv,
         LoopTop \/ ReadTimeout \/ Read \/ (\E due \in BOOLEAN : Keepalive(due))
  PROVE  IInv'
<1> USE ConstantsAreApart
        DEF IInv, ContextTypeOK, DtlsTypes, Threads, Untouched, Started, Announced,
            KeysAreTrusted, Trusted, SendsNeedASocket,
            apiVars, peerVars
<1>1. CASE LoopTop
  <2>1. DtlsTypes'
    BY <1>1, TransportFrame DEF LoopTop
  <2>2. QED
    BY <1>1, <2>1 DEF LoopTop, LoopMayRun, dtlsVars
<1>2. CASE ReadTimeout
  <2>1. DtlsTypes'
    BY <1>2, TransportFrame DEF ReadTimeout
  <2>2. QED
    BY <1>2, <2>1 DEF ReadTimeout, dtlsVars
<1>3. CASE Read
  <2>1. PICK m \in Arriving :
          Dispatch(m) /\ net' = (net \ {m}) \union Sends(m)
    BY <1>3 DEF Read
  <2>2. m \in ToClient \union {"rtp"}
    BY DEF Arriving, Media
  <2>3. client /\ answer \in Fingerprints
    BY <1>3 DEF Read
  <2>4. /\ DtlsTypes' /\ KeysAreTrusted' /\ media' \in BOOLEAN
        /\ srtp' \in Fingerprints \union {NoFingerprint}
    <3> HIDE DEF DtlsTypes, KeysAreTrusted, Announced
    <3>1. DtlsTypes /\ KeysAreTrusted /\ Announced /\ media \in BOOLEAN /\ UNCHANGED answer
      BY <1>3 DEF Read, DtlsTypes
    <3>2. QED
      BY <2>1, <2>2, <2>3, <3>1, DispatchInv
  <2>5. net' \subseteq ToClient \union ToPeer
    BY <2>1 DEF Sends, ToPeer
  <2>6. worker' = "tick" /\ UNCHANGED <<apiVars, client, runFlag, peerVars>>
    BY <1>3 DEF Read
  <2>7. Announced'
    BY <2>1, <2>2, <2>3, <2>6, AnnouncedFrame
  <2>8. QED
    BY <1>3, <2>3, <2>4, <2>5, <2>6, <2>7 DEF Read
<1>4. ASSUME NEW due \in BOOLEAN, Keepalive(due) PROVE IInv'
  <2>1. DtlsTypes'
    BY <1>4, TransportFrame DEF Keepalive
  <2>2. net' \subseteq ToClient \union ToPeer
    BY <1>4 DEF Keepalive, BindRequest, ToPeer
  <2>3. QED
    BY <1>4, <2>1, <2>2 DEF Keepalive, dtlsVars
<1>5. QED
  BY <1>1, <1>2, <1>3, <1>4

(* The peer and the network. *)
LEMMA NetworkInv ==
  ASSUME IInv,
         \/ \E m \in ToPeer : PeerReceives(m)
         \/ \E m \in ToClient : PeerSends(m)
         \/ \E m \in ToClient \union ToPeer : Lose(m)
  PROVE  IInv'
<1> USE ConstantsAreApart
        DEF IInv, ContextTypeOK, DtlsTypes, Threads, Untouched, Started, Announced,
            KeysAreTrusted, Trusted, SendsNeedASocket, apiVars
<1>1. ASSUME NEW m \in ToPeer, PeerReceives(m) PROVE IInv'
  <2>1. DtlsTypes'
    BY <1>1, TransportFrame DEF PeerReceives, apiVars
  <2>2. /\ net' \subseteq ToClient \union ToPeer
        /\ net' \intersect ToPeer \subseteq net \intersect ToPeer
        /\ remote' \in {"wait", "flight", "done", "closed"}
    BY <1>1 DEF PeerReceives, ToClient, ToPeer
  <2>3. QED
    BY <1>1, <2>1, <2>2 DEF PeerReceives, dtlsVars
<1>2. ASSUME NEW m \in ToClient, PeerSends(m) PROVE IInv'
  <2>1. DtlsTypes'
    BY <1>2, TransportFrame DEF PeerSends, apiVars
  <2>2. /\ net' \subseteq ToClient \union ToPeer
        /\ net' \intersect ToPeer \subseteq net \intersect ToPeer
        /\ remote' \in {"wait", "flight", "done", "closed"}
    BY <1>2 DEF PeerSends, ToClient, ToPeer
  <2>3. QED
    BY <1>2, <2>1, <2>2 DEF PeerSends, dtlsVars
<1>3. ASSUME NEW m \in ToClient \union ToPeer, Lose(m) PROVE IInv'
  <2>1. DtlsTypes'
    BY <1>3, TransportFrame DEF Lose, apiVars
  <2>2. /\ net' \subseteq ToClient \union ToPeer
        /\ net' \intersect ToPeer \subseteq net \intersect ToPeer
        /\ lostStun' \in 0 .. StunLosses /\ lostDtls' \in 0 .. DtlsLosses
    BY <1>3 DEF Lose
  <2>3. QED
    BY <1>3, <2>1, <2>2 DEF Lose, dtlsVars
<1>4. QED
  BY <1>1, <1>2, <1>3

(* Every step of every thread, of the peer and of the network keeps it all. *)
LEMMA NextInv == IInv /\ [ContextNext]_vars => IInv'
<1> SUFFICES ASSUME IInv, [ContextNext]_vars PROVE IInv'
  OBVIOUS
<1>1. CASE UNCHANGED vars
  <2>1. DtlsTypes'
    BY <1>1, TransportFrame DEF vars, apiVars, IInv, ContextTypeOK, DtlsTypes
  <2>2. QED
    BY <1>1, <2>1
    DEF vars, dtlsVars, apiVars, peerVars, IInv, ContextTypeOK, DtlsTypes, Threads,
        Untouched, Started, Announced, KeysAreTrusted, Trusted,
        SendsNeedASocket
<1>2. CASE ContextNext
  BY <1>2, ApplicationInv, WorkerInv, NetworkInv DEF ContextNext
<1>3. QED
  BY <1>1, <1>2

(* The inductive invariant holds in every state. *)
THEOREM Invariants == ContextSpec => []IInv
  BY InitInv, NextInv, PTL DEF ContextSpec

(* The state keeps its types: the thread and the socket come together, and *)
(* only after an answer (startConnectPeer).                                *)
THEOREM ContextTypeCorrect == ContextSpec => []ContextTypeOK
<1>1. IInv => ContextTypeOK
  BY DEF IInv
<1>2. QED
  BY <1>1, Invariants, PTL

(* Media is decrypted only with keys of the peer the answer names, however *)
(* datagrams are reordered or lost and however often the handshake starts  *)
(* again (OnDtlsTransportConnected, dispatchPeerData).                     *)
THEOREM MediaComesFromTheAnsweredPeer == ContextSpec => []MediaIsFromTheAnsweredPeer
<1>1. IInv => MediaIsFromTheAnsweredPeer
  BY DEF IInv, KeysAreTrusted, Trusted, MediaIsFromTheAnsweredPeer
<1>2. QED
  BY <1>1, Invariants, PTL

(* send() is never reached without a socket, though it does not look. *)
THEOREM SocketBeforeSending == ContextSpec => []SendsNeedASocket
<1>1. IInv => SendsNeedASocket
  BY DEF IInv
<1>2. QED
  BY <1>1, Invariants, PTL

-----------------------------------------------------------------------------
(* The connection uses its transport as DtlsTransport is specified: every  *)
(* step of a thread is a call of it or leaves it alone.                    *)
LEMMA StepOfTheTransport == IInv /\ [ContextNext]_vars => [Next]_dtlsVars
<1> DEFINE Step == Next \/ UNCHANGED dtlsVars
<1> SUFFICES ASSUME IInv, [ContextNext]_vars PROVE Step
  OBVIOUS
<1> USE DEF dtlsVars
<1>1. ASSUME NEW fp \in Fingerprints, SetRemoteSdp(fp) PROVE Step
  BY <1>1 DEF SetRemoteSdp, Next
<1>2. ASSUME NEW m \in Arriving, Dispatch(m)
      PROVE  Step
  <2>1. CASE OnIceData
    BY <2>1 DEF OnIceData, Next, Roles
  <2>2. CASE OnFlight
    BY <2>2 DEF OnFlight, Next
  <2>3. CASE OnDone
    <3>1. handshakeDone => peer = ThePeer
      BY DEF IInv, ContextTypeOK, TypeOK, Transport, PeerOnly
    <3>2. CASE HandshakeDone(ThePeer, <<>>)
      BY <3>1, <3>2, ConstantsAreApart DEF Next
    <3>3. CASE DropData
      BY <3>3 DEF Next
    <3>4. QED
      BY <2>3, <3>2, <3>3 DEF OnDone, ThePeer
  <2>4. CASE OnClose
    BY <2>4 DEF OnClose, Next
  <2>5. QED
    BY <1>2, <2>1, <2>2, <2>3, <2>4 DEF Dispatch, Arriving, ToClient, Media
<1>3. CASE Read
  BY <1>2, <1>3 DEF Read
<1>4. CASE UNCHANGED vars
  BY <1>4 DEF vars
<1>5. CASE SignalFailed \/ StartConnectPeer \/ Stop \/ Destroy \/ LoopTop \/ ReadTimeout
  BY <1>5 DEF SignalFailed, StartConnectPeer, Stop, Destroy, LoopTop, ReadTimeout
<1>6. ASSUME NEW due \in BOOLEAN, Keepalive(due) PROVE Step
  BY <1>6 DEF Keepalive
<1>7. ASSUME NEW m \in ToClient \union ToPeer,
             PeerReceives(m) \/ PeerSends(m) \/ Lose(m)
      PROVE  Step
  BY <1>7 DEF PeerReceives, PeerSends, Lose
<1> HIDE DEF Step, dtlsVars, dtlsVars
<1>8. CASE ContextNext
  BY <1>1, <1>3, <1>5, <1>6, <1>7, <1>8 DEF ContextNext
<1>9. QED
  BY <1>4, <1>8

(* What is shown of the transport alone holds of it inside a connection.   *)
THEOREM ConnectionUsesItsTransport == ContextSpec => Spec
<1>1. ContextInit => Init
  BY DEF ContextInit
<1>2. QED
  BY <1>1, StepOfTheTransport, Invariants, PTL DEF ContextSpec, Spec

(* Whoever uses a connection sees a SecureChannel, whatever the threads,   *)
(* the peer and the network do (OnDtlsTransportConnected and the other     *)
(* calls of the listener).                                                 *)
THEOREM SessionsAreSecure == ContextSpec => IsSecureChannel
  BY ConnectionUsesItsTransport, TransportIsASecureChannel, PTL
===============================================================================
