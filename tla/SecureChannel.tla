--------------------------- MODULE SecureChannel ----------------------------
(***************************************************************************)
(* What a DTLS transport promises to its listener: it hears every change,  *)
(* it gets SRTP keys once for each start, only for a peer that holds the   *)
(* certificate the remote sdp announced, and a connection that was up is    *)
(* closed while one that never came up has failed.                         *)
(***************************************************************************)
CONSTANTS
  Fingerprints,   \* values of a certificate's fingerprint
  Peers,          \* what a peer may be: its certificate and its SRTP suite
  NoFingerprint, NoPeer

VARIABLES
  status,    \* where the connection is
  heard,     \* what the listener was told last
  announced, \* the fingerprint of the remote sdp
  keyedFor,  \* the peer the keys in use belong to
  keysNow    \* did the last step hand out keys?

channelVars == <<status, heard, announced, keyedFor, keysNow>>

Tell(s) == status' = s /\ heard' = s

Start ==
  /\ Tell("connecting")
  /\ keyedFor' = NoPeer /\ keysNow' = FALSE
  /\ UNCHANGED announced

(* The fingerprint may be announced at any time; where it is the one the    *)
(* peer has shown already, keys come at once, where it is not, failure.    *)
Announce(fp) ==
  /\ announced' = fp
  /\ keysNow' = FALSE
  /\ UNCHANGED <<status, heard, keyedFor>>

Establish(p) ==
  /\ status = "connecting"
  /\ announced' \in {announced} \union Fingerprints
  /\ p.cert = announced' /\ p.suite
  /\ Tell("connected")
  /\ keyedFor' = p /\ keysNow' = TRUE

Fail ==
  /\ status = "connecting"
  /\ announced' \in {announced} \union Fingerprints
  /\ Tell("failed")
  /\ keyedFor' = NoPeer /\ keysNow' = FALSE

Close ==
  /\ status = "connected"
  /\ Tell("closed")
  /\ keyedFor' = NoPeer /\ keysNow' = FALSE
  /\ UNCHANGED announced

(* Steps without a change for the listener. *)
GoOn == keysNow' = FALSE /\ UNCHANGED <<status, heard, announced, keyedFor>>

Init ==
  /\ status = "new" /\ heard = "new"
  /\ announced = NoFingerprint
  /\ keyedFor = NoPeer /\ keysNow = FALSE

Next ==
  \/ Start
  \/ \E fp \in Fingerprints : Announce(fp)
  \/ \E p \in Peers : Establish(p)
  \/ Fail
  \/ Close
  \/ GoOn

Spec == Init /\ [][Next]_channelVars
=============================================================================
