------------------------------ MODULE DataPath ------------------------------
(***************************************************************************)
(* One direction between two peers: the sender's half of noisework.Session *)
(* (Send, rekeySendTo), a datagram network that loses, duplicates and      *)
(* reorders, and the receiver's Peer.onData: replay gate,                  *)
(* noisework.Session.DecryptAt, commit, and the bounded recv channel.      *)
(*                                                                         *)
(* A key is a session and the number of Rekey calls applied to the cipher  *)
(* state that left its handshake; AEAD opening succeeds exactly when key   *)
(* and nonce are those the frame was sealed with.  A damaged frame has key *)
(* NoKey.  The two ends install the sessions of successive handshakes, and *)
(* give up aged ones, independently of each other; either end may be first.*)
(* That no end installs a session twice, and that each goes to later       *)
(* sessions only, is PeerHandshake's KeysInstalledOnce and OrderSpec.      *)
(***************************************************************************)
EXTENDS ReplayWindow, Sequences

CONSTANTS RekeyEvery,    \* messages per key epoch
          MaxEpochJump,  \* maxEpochJump
          MaxNonce,      \* largest transport nonce; the counter has one more value
          RecvCap,       \* capacity of Peer.recv
          Keepalives,    \* the nonces that the sender spends on keepalives
          MaxSession     \* bound: sessions that handshakes establish

ASSUME RekeyEveryAssumption == RekeyEvery \in Nat \ {0}
ASSUME MaxEpochJumpAssumption == MaxEpochJump \in Nat \ {0}
ASSUME MaxNonceAssumption == MaxNonce \in Nat
ASSUME RecvCapAssumption == RecvCap \in Nat
ASSUME KeepalivesAssumption == Keepalives \subseteq 0 .. MaxNonce
ASSUME MaxSessionAssumption == MaxSession \in Nat \ {0}

VARIABLES sendSess,   \* the sender's session, or NoSession
          sendLast,   \* the latest session it installed
          sendCount,  \* nonce of the next send
          sendEpoch,  \* rekeys the sender has counted
          sendKey,    \* rekeys applied to the send cipher state
          sealed,     \* every frame that was ever put on the wire
          recvSess,   \* the receiver's session, or NoSession
          recvLast,   \* the latest session it installed
          recvEpoch,  \* rekeys the receiver has counted
          recvKey,    \* rekeys applied to the recv cipher state
          w,          \* the receiver's replay window
          recv,       \* the recv channel: the queued plaintexts
          delivered   \* history: how often a plaintext was put into recv

sendVars == <<sendSess, sendLast, sendCount, sendEpoch, sendKey, sealed>>
recvVars == <<recvSess, recvLast, recvEpoch, recvKey, w, recv, delivered>>
vars == <<sendVars, recvVars>>

NoKey == -1
NoSession == 0
Sessions == 1 .. MaxSession

\* The wire carries a 64-bit nonce: one value more than a session may use.
WireNonces == 0 .. MaxNonce + 1

Frame == [sess : Sessions, nonce : WireNonces, key : Nat]

Strays == [sess : {NoSession}, nonce : WireNonces, key : {NoKey}]

\* A frame's plaintext; a keepalive has none.
Items == Sessions \X WireNonces
Item(f) == <<f.sess, f.nonce>>
Empty(f) == f.nonce \in Keepalives

epochOf(nonce) == nonce \div RekeyEvery

\* Both ends have just installed the session of the first handshake.
Init ==
  /\ sendSess = 1 /\ sendLast = 1
  /\ sendCount = 0 /\ sendEpoch = 0 /\ sendKey = 0 /\ sealed = {}
  /\ recvSess = 1 /\ recvLast = 1
  /\ recvEpoch = 0 /\ recvKey = 0 /\ w = newReplayWindow
  /\ recv = <<>> /\ delivered = [x \in Items |-> 0]

-----------------------------------------------------------------------------
\* The frame that leaves after n rekeys.
Sealed(n) == [sess |-> sendSess, nonce |-> sendCount, key |-> sendKey + n]

\* Rekeys that are due before the next frame (rekeySendTo).
Due == LET ep == epochOf(sendCount) IN IF ep > sendEpoch THEN ep - sendEpoch ELSE 0

\* Mutant: the nonce is used up to the top of the counter, which then wraps.
SendUnbounded ==
  /\ sendSess # NoSession
  /\ sendEpoch' = sendEpoch + Due
  /\ sendKey' = sendKey + Due
  /\ sealed' = sealed \cup {Sealed(Due)}
  /\ sendCount' = (sendCount + 1) % (MaxNonce + 2)
  /\ UNCHANGED <<sendSess, sendLast, recvVars>>

\* Session.Send under the peer lock; an exhausted counter is an error.
Send ==
  /\ sendSess # NoSession
  /\ sendCount <= MaxNonce
  /\ Due <= MaxEpochJump
  /\ sendEpoch' = sendEpoch + Due
  /\ sendKey' = sendKey + Due
  /\ sealed' = sealed \cup {Sealed(Due)}
  /\ sendCount' = (sendCount + 1) % (MaxNonce + 2)
  /\ UNCHANGED <<sendSess, sendLast, recvVars>>

-----------------------------------------------------------------------------
\* Opening a frame of a later epoch rekeys a throwaway copy of the key.
Jump(nonce) == epochOf(nonce) - recvEpoch

Opens(f) == f.sess = recvSess /\ f.key = recvKey + Jump(f.nonce)

\* DecryptAt returns no error.
Decryptable(f) ==
  /\ f.nonce <= MaxNonce
  /\ Jump(f.nonce) \in 0 .. MaxEpochJump
  /\ Opens(f)

\* Mutant: the epoch is counted, but the live cipher state is not rekeyed.
CommitsNoRekey(f) ==
  /\ recvEpoch' = recvEpoch + Jump(f.nonce)
  /\ w' = Commit(w, f.nonce)
  /\ UNCHANGED recvKey

\* Mutant: the nonce of an authenticated frame is not recorded.
CommitsNoWindow(f) ==
  /\ recvEpoch' = recvEpoch + Jump(f.nonce)
  /\ recvKey' = recvKey + Jump(f.nonce)
  /\ UNCHANGED w

\* The receiver's state after a frame authenticated.
Commits(f) ==
  /\ recvEpoch' = recvEpoch + Jump(f.nonce)
  /\ recvKey' = recvKey + Jump(f.nonce)
  /\ w' = Commit(w, f.nonce)

\* Mutant: the live cipher state is rekeyed before the frame authenticated.
DropAfterRekey(f) ==
  /\ IF f.nonce <= MaxNonce /\ Jump(f.nonce) \in 0 .. MaxEpochJump
       THEN recvEpoch' = recvEpoch + Jump(f.nonce) /\ recvKey' = recvKey + Jump(f.nonce)
       ELSE UNCHANGED <<recvEpoch, recvKey>>
  /\ UNCHANGED <<recvSess, recvLast, w, recv, delivered>>

\* Any failed check leaves the receive direction as it was.
Drop(f) == UNCHANGED recvVars

\* The non-blocking send on Peer.recv: a plaintext is dropped when it is full.
Enqueue(f) ==
  IF Empty(f) \/ Len(recv) >= RecvCap
    THEN UNCHANGED <<recv, delivered>>
    ELSE recv' = Append(recv, Item(f)) /\ delivered' = [delivered EXCEPT ![Item(f)] = @ + 1]

\* A receiver without a session returns at once.
onData(f) ==
  /\ recvSess # NoSession
  /\ IF Check(w, f.nonce) /\ Decryptable(f)
       THEN Commits(f) /\ Enqueue(f) /\ UNCHANGED <<recvSess, recvLast>>
       ELSE Drop(f)
  /\ UNCHANGED sendVars

\* A consumer (peerMessageLoop, the TUN bridge) takes the next plaintext.
Consume ==
  /\ recv # <<>>
  /\ recv' = Tail(recv)
  /\ UNCHANGED <<sendVars, recvSess, recvLast, recvEpoch, recvKey, w, delivered>>

-----------------------------------------------------------------------------
(* Rotation.  A new Session starts at nonce 0 with the keys of its handshake.*)

SenderInstalls(s) ==
  /\ s > sendLast
  /\ sendSess' = s /\ sendLast' = s
  /\ sendCount' = 0 /\ sendEpoch' = 0 /\ sendKey' = 0
  /\ UNCHANGED <<sealed, recvVars>>

\* Mutant: the replay window of the old key is kept.
ReceiverKeepsWindow(s) ==
  /\ s > recvLast
  /\ recvSess' = s /\ recvLast' = s
  /\ recvEpoch' = 0 /\ recvKey' = 0
  /\ UNCHANGED <<w, recv, delivered, sendVars>>

\* setSessionLocked replaces the replay window with the session.
ReceiverInstalls(s) ==
  /\ s > recvLast
  /\ recvSess' = s /\ recvLast' = s
  /\ recvEpoch' = 0 /\ recvKey' = 0 /\ w' = newReplayWindow
  /\ UNCHANGED <<recv, delivered, sendVars>>

\* forceRehandshake: the session is older than sessionMaxAge.
SenderRotates ==
  /\ sendSess # NoSession /\ sendLast < MaxSession
  /\ sendSess' = NoSession
  /\ UNCHANGED <<sendLast, sendCount, sendEpoch, sendKey, sealed, recvVars>>

ReceiverRotates ==
  /\ recvSess # NoSession /\ recvLast < MaxSession
  /\ recvSess' = NoSession /\ w' = newReplayWindow
  /\ UNCHANGED <<recvLast, recvEpoch, recvKey, recv, delivered, sendVars>>

Next ==
  \/ Send
  \/ \E f \in sealed \cup Strays : onData(f)
  \/ Consume
  \/ \E s \in Sessions : SenderInstalls(s) \/ ReceiverInstalls(s)
  \/ SenderRotates \/ ReceiverRotates

Spec == Init /\ [][Next]_vars

-----------------------------------------------------------------------------
TypeOK ==
  /\ sendSess \in {NoSession, sendLast} /\ sendLast \in Sessions
  /\ sendCount \in WireNonces /\ sendEpoch \in Nat /\ sendKey \in Nat
  /\ sealed \in SUBSET Frame
  /\ recvSess \in {NoSession, recvLast} /\ recvLast \in Sessions
  /\ recvEpoch \in Nat /\ recvKey \in Nat
  /\ w \in Window
  /\ recv \in Seq(Items) /\ Len(recv) <= RecvCap
  /\ delivered \in [Items -> Nat]

\* A nonce is used for one frame of a session only, under the key of its own
\* epoch: Send never reuses a nonce, not even when the counter reaches its
\* last value.
NonceOnce ==
  /\ \A f, g \in sealed : Item(f) = Item(g) => f = g
  /\ \A f \in sealed : /\ f.key = epochOf(f.nonce)
                        /\ f.sess = sendSess => f.nonce < sendCount

InOneSession == sendSess = recvSess /\ sendSess # NoSession

\* In a session the receiver's keys never run ahead of what the sender has
\* used, whatever nonces undecryptable datagrams, or frames of the session
\* before, carry: Rekey is one-way, so a receiver ahead of its sender could
\* not read it any more.
NeverAhead == InOneSession => recvEpoch <= sendEpoch /\ recvKey <= sendKey

\* However many frames were lost, repeated, reordered or damaged, in this
\* session or before the rotation, the next frame of the sender passes the
\* replay gate and opens, as long as the receiver lags by at most
\* maxEpochJump epochs.
NextFrameAccepted ==
  LET next == [sess |-> sendSess, nonce |-> sendCount, key |-> epochOf(sendCount)]
  IN  (InOneSession /\ sendCount <= MaxNonce /\ Jump(sendCount) <= MaxEpochJump)
        => Check(w, sendCount) /\ Decryptable(next)

\* Keys, nonces, windows and rotations implement a channel that hands over
\* what was sent, and every message once: no frame is delivered twice, not
\* even by way of an old frame of another session, and no keepalive at all.
Once == INSTANCE OnceChannel WITH sent <- {Item(f) : f \in {g \in sealed : ~Empty(g)}}
OnceSpec == Once!Spec
=============================================================================
