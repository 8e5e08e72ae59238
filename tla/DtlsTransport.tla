---------------------------- MODULE DtlsTransport ----------------------------
(***************************************************************************)
(* The DTLS state machine of a connection: DtlsTransport of                *)
(* src/peer/DtlsTransport.cpp.  OpenSSL is external: one call of SSL_read  *)
(* ends in one of Events, with the certificate and the SRTP suite it holds *)
(* for the peer in "peer".  handshakeDoneNow is raised inside SSL_read and *)
(* consumed by the CheckStatus that follows, so it is the event "done".    *)
(* onSslDtlsTimer keeps every DTLS timeout under 30 s, so SetTimeout only  *)
(* ever returns true; the timer it would start is commented out.           *)
(***************************************************************************)
EXTENDS Naturals, Sequences

CONSTANTS
  Fingerprints,   \* values of a certificate's fingerprint
  NoFingerprint,  \* FingerprintAlgorithm::NONE
  NoPeer          \* OpenSSL holds no certificate

ASSUME DtlsAssumption ==
  NoFingerprint \notin Fingerprints /\ NoPeer \notin [cert : Fingerprints, suite : BOOLEAN]

Roles  == {"client", "server"}
States == {"new", "connecting", "connected", "failed", "closed"}

(* What OpenSSL may hold for a peer after a handshake: its certificate and *)
(* whether an SRTP suite was negotiated.                                   *)
Peers == [cert : Fingerprints, suite : BOOLEAN]

VARIABLES
  state,             \* this->state
  localRole,         \* this->localRole
  handshakeDone,     \* this->handshakeDone
  remoteFingerprint, \* this->remoteFingerprint
  peer,              \* what SSL_get_peer_certificate and ..._srtp_profile answer
  notes,             \* the calls of the listener in the last operation, in order
  told               \* the last call of the listener about the connection

dtlsVars == <<state, localRole, handshakeDone, remoteFingerprint, peer, notes, told>>

IsRunning == state \in {"connecting", "connected"}

-----------------------------------------------------------------------------
Notify(note) == notes' = <<note>> /\ told' = note
NotifyThen(note, more) == notes' = <<note>> \o more /\ told' = note
Silent == notes' = <<>> /\ UNCHANGED told

(* Reset() and then the new state: FAILED or CLOSED. *)
ResetKeepDone(to) ==
  state' = to /\ localRole' = "none" /\ UNCHANGED handshakeDone /\ peer' = NoPeer
ResetKeepRole(to) ==
  state' = to /\ UNCHANGED localRole /\ handshakeDone' = FALSE /\ peer' = NoPeer
Reset(to) ==
  /\ state' = to
  /\ localRole' = "none"
  /\ handshakeDone' = FALSE
  /\ peer' = NoPeer

(* ProcessHandshake(): keys for the peer whose certificate has the         *)
(* fingerprint of the remote sdp, or failure.  "more" is what the listener *)
(* hears after it, when the handshake succeeds.                            *)
VerifiedAny(fp, p) == p.suite
Verified(fp, p) == p.cert = fp /\ p.suite

ProcessHandshake(fp, p, more) ==
  IF Verified(fp, p)
  THEN /\ state' = "connected"
       /\ handshakeDone' = TRUE
       /\ peer' = p
       /\ UNCHANGED localRole
       /\ NotifyThen("connected", more)
  ELSE /\ Reset("failed")
       /\ Notify("failed")

(* Run(role): the same role again changes nothing. *)
Run(role) ==
  /\ localRole # role
  /\ localRole' = role
  /\ state' = "connecting"
  /\ IF localRole = "none" THEN UNCHANGED <<handshakeDone, peer>>
     ELSE handshakeDone' = FALSE /\ peer' = NoPeer
  /\ UNCHANGED remoteFingerprint
  /\ Notify("connecting")

RunSameRole(role) ==
  /\ localRole = role
  /\ Silent
  /\ UNCHANGED <<state, localRole, handshakeDone, remoteFingerprint, peer>>

(* SetRemoteFingerprint: "may have been set after DTLS handshake was done" *)
LateNever(fp) == FALSE
Late(fp) == handshakeDone /\ state # "connected"

SetRemoteFingerprint(fp) ==
  /\ remoteFingerprint' = fp
  /\ IF Late(fp) THEN ProcessHandshake(fp, peer, <<>>)
     ELSE Silent /\ UNCHANGED <<state, localRole, handshakeDone, peer>>

(* ProcessDtlsData while not running: dropped *)
DropData ==
  /\ ~IsRunning
  /\ Silent
  /\ UNCHANGED <<state, localRole, handshakeDone, remoteFingerprint, peer>>

(* ProcessDtlsData, when OpenSSL waits for more of the handshake *)
Progress ==
  /\ IsRunning
  /\ Silent
  /\ UNCHANGED <<state, localRole, handshakeDone, remoteFingerprint, peer>>

(* ProcessDtlsData, when SSL_read completes a handshake.  CheckStatus      *)
(* processes it "just once (ignore if DTLS renegotiation)", and only when  *)
(* the fingerprint to compare with is known.  The same SSL_read may return *)
(* application data, which the listener then gets at once.                 *)
FirstAlways == TRUE
First == ~handshakeDone

HandshakeDone(p, more) ==
  /\ IsRunning
  /\ UNCHANGED remoteFingerprint
  /\ IF First /\ remoteFingerprint # NoFingerprint
     THEN ProcessHandshake(remoteFingerprint, p, more)
     ELSE /\ handshakeDone' = TRUE
          /\ peer' = p
          /\ notes' = more
          /\ UNCHANGED <<state, localRole, told>>

(* ProcessDtlsData, when SSL_read returns application data: the listener   *)
(* gets it only once the handshake is done.                                *)
ApplicationData ==
  /\ IsRunning
  /\ notes' = IF handshakeDone THEN <<"data">> ELSE <<>>
  /\ UNCHANGED <<state, localRole, handshakeDone, remoteFingerprint, peer, told>>

(* CheckStatus, when the peer closed or an error is fatal: ProcessDtlsData *)
(* and SendApplicationData end in it.                                      *)
EndedState == IF state = "connected" THEN "closed" ELSE "failed"

Ended ==
  /\ IsRunning
  /\ Reset(EndedState)
  /\ UNCHANGED remoteFingerprint
  /\ Notify(EndedState)

Init ==
  /\ state = "new" /\ localRole = "none" /\ handshakeDone = FALSE
  /\ remoteFingerprint = NoFingerprint
  /\ peer = NoPeer
  /\ notes = <<>> /\ told = "new"

(* A renegotiation keeps the certificate: OpenSSL refuses another one.     *)
Next ==
  \/ \E role \in Roles : Run(role) \/ RunSameRole(role)
  \/ \E fp \in Fingerprints : SetRemoteFingerprint(fp)
  \/ DropData
  \/ Progress
  \/ \E p \in Peers, more \in {<<>>, <<"data">>} :
       (handshakeDone => p = peer) /\ HandshakeDone(p, more)
  \/ ApplicationData
  \/ Ended

Spec == Init /\ [][Next]_dtlsVars

-----------------------------------------------------------------------------
(* OpenSSL holds the peer of the handshake that is done, and of no other. *)
TypeOK ==
  /\ state \in States
  /\ localRole \in Roles \union {"none"}
  /\ handshakeDone \in BOOLEAN
  /\ remoteFingerprint \in Fingerprints \union {NoFingerprint}
  /\ peer \in Peers \union {NoPeer}
  /\ told \in States
  /\ handshakeDone <=> peer # NoPeer

(***************************************************************************)
(* A transport has a role exactly while it runs, a handshake is done only  *)
(* while it runs, and it is done once connected.  Reset does nothing in    *)
(* any other state: a role left behind would make every later Run "the     *)
(* same role, doing nothing".                                              *)
(***************************************************************************)
RoleWhileRunning ==
  /\ localRole # "none" <=> IsRunning
  /\ handshakeDone => IsRunning
  /\ state = "connected" => handshakeDone

(***************************************************************************)
(* A handshake that is done is processed: either the fingerprint of the    *)
(* remote sdp is not known yet, or the transport is connected.  No order   *)
(* of handshake and remote sdp leaves it waiting in CONNECTING.            *)
(***************************************************************************)
DoneIsProcessed ==
  handshakeDone => state = "connected" \/ remoteFingerprint = NoFingerprint

(***************************************************************************)
(* The listener is told of every change, and of nothing else: what it      *)
(* heard last is the state of the transport.                               *)
(***************************************************************************)
ListenerKnowsState == told = state

(***************************************************************************)
(* The listener sees a SecureChannel: whatever the order of Run, of the    *)
(* remote fingerprint and of the events of OpenSSL, renegotiations and     *)
(* late answers included, keys are handed out once for each run and for a  *)
(* verified peer only, every change is told, and "closed" follows          *)
(* "connected" where anything else "fails".                                *)
(***************************************************************************)
HandsOutKeys == notes # <<>> /\ notes[1] = "connected"
Listener == INSTANCE SecureChannel WITH
              status <- state, heard <- told, announced <- remoteFingerprint,
              keyedFor <- IF state = "connected" THEN peer ELSE NoPeer,
              keysNow <- HandsOutKeys
IsSecureChannel == Listener!Spec
=============================================================================
