-------------------------- MODULE DataPath_proofs --------------------------
(***************************************************************************)
(* Proofs about one direction of a session, for every epoch length, jump   *)
(* limit, counter width, channel capacity, replay window and number of     *)
(* rotations.                                                              *)
(***************************************************************************)
EXTENDS DataPath, TLAPS

(* The lemmas about the replay window are those of ReplayReceiver_proofs.   *)
(* They speak of any window and any set of accepted nonces, so that what    *)
(* stands for that module's history variables is of no account.             *)
Win == INSTANCE ReplayReceiver_proofs WITH Nonces <- WireNonces, accepted <- {}, verdict <- 0

-----------------------------------------------------------------------------
(* The epoch of a nonce.                                                    *)
LEMMA EpochType ==
  ASSUME NEW n \in Nat
  PROVE  epochOf(n) \in Nat /\ epochOf(0) = 0
  BY RekeyEveryAssumption, SMT DEF epochOf

(* Later nonces belong to later epochs.                                     *)
LEMMA EpochMonotone ==
  ASSUME NEW m \in Nat, NEW n \in Nat, m <= n
  PROVE  epochOf(m) <= epochOf(n)
<1> DEFINE p == epochOf(m)
           q == epochOf(n)
           R == RekeyEvery
<1>1. /\ R \in Nat \ {0} /\ p \in Nat /\ q \in Nat
      /\ \E r \in 0 .. R - 1 : m = p * R + r
      /\ \E r \in 0 .. R - 1 : n = q * R + r
  <2>1. m % R \in 0 .. R - 1 /\ m = p * R + (m % R)
    BY RekeyEveryAssumption, SMT DEF epochOf
  <2>2. n % R \in 0 .. R - 1 /\ n = q * R + (n % R)
    BY RekeyEveryAssumption, SMT DEF epochOf
  <2> QED
    BY <2>1, <2>2, EpochType, RekeyEveryAssumption
<1> HIDE DEF p, q, R
<1>2. SUFFICES ASSUME p > q PROVE FALSE
  BY <1>1, SMT DEF p, q
<1>3. PICK d \in Nat : p = q + 1 + d
  <2>1. p - q - 1 \in Nat /\ p = q + 1 + (p - q - 1)
    BY <1>1, <1>2, SMT
  <2> QED
    BY <2>1
<1>4. p * R = q * R + R + d * R
  BY <1>1, <1>3, SMT
<1>5. d * R \in Nat /\ q * R \in Nat
  BY <1>1, SMT
<1> QED
  BY <1>1, <1>4, <1>5, SMT

-----------------------------------------------------------------------------
(* The sender's keys are those of the last nonce it used; a frame carries   *)
(* the key of its epoch, and no frame is ahead of its session's counter.    *)
SenderInv ==
  /\ sendKey = sendEpoch
  /\ sendEpoch = IF sendCount = 0 THEN 0 ELSE epochOf(sendCount - 1)
  /\ \A f \in sealed :
       /\ f.nonce <= MaxNonce
       /\ f.key = epochOf(f.nonce)
       /\ f.sess <= sendLast
       /\ f.sess = sendLast => f.nonce < sendCount

(* A frame of the receiver's latest session went out with nonce n.          *)
SentBefore(n) == \E f \in sealed : f.sess = recvLast /\ f.nonce = n

(* The receiver's window stands for a set of nonces that were all sent in   *)
(* its session, and contains those whose plaintext was handed over in it.   *)
WindowInv ==
  \E acc \in SUBSET Nat :
    /\ Win!Tracks(w, acc)
    /\ \A n \in acc : SentBefore(n)
    /\ recvSess # NoSession => \A n \in WireNonces : delivered[<<recvLast, n>>] # 0 => n \in acc

(* The receiver's keys are those of a frame that was sent, and nothing is   *)
(* handed over twice, or before its session is installed.                   *)
ReceiverInv ==
  /\ recvKey = recvEpoch
  /\ recvEpoch # 0 => \E n \in WireNonces : SentBefore(n) /\ recvEpoch = epochOf(n)
  /\ \A x \in Items : /\ delivered[x] \in {0, 1}
                      /\ x[1] > recvLast => delivered[x] = 0
  /\ WindowInv

IInv == TypeOK /\ SenderInv /\ ReceiverInv

-----------------------------------------------------------------------------
(* What the facts about the replay window rest on.                          *)
LEMMA WindowAssumptions == Size \in Nat \ {0} /\ WordBits \in Nat \ {0} /\ WireNonces \subseteq Nat
  BY SizeAssumption, WordBitsAssumption, MaxNonceAssumption DEF WireNonces

(* A new window stands for no nonce at all.                                 *)
LEMMA NewWindow == Win!Tracks(newReplayWindow, {})
<1>1. newReplayWindow = Win!newReplayWindow
  BY DEF newReplayWindow, Win!newReplayWindow, Cleared, Win!Cleared, Words, Win!Words, NWords, Win!NWords
<1> QED
  BY <1>1, WindowAssumptions, Win!NewTracks

LEMMA WindowType ==
  ASSUME NEW win, NEW acc, Win!Tracks(win, acc)
  PROVE  win \in Window /\ acc \in SUBSET Nat
  BY DEF Win!Tracks, Window, Win!Window, Bitmap, Win!Bitmap, Word, Win!Word, Words, Win!Words,
         NWords, Win!NWords

(* The gate admits a nonce above all accepted ones, and no accepted one.    *)
LEMMA GateFacts ==
  ASSUME NEW win, NEW acc, Win!Tracks(win, acc), NEW n \in Nat
  PROVE  /\ Check(win, n) => n \notin acc
         /\ (\A m \in acc : m < n) => Check(win, n)
<1>1. Check(win, n) <=> Win!Check(win, n)
  BY DEF Check, Win!Check, getBit, Win!getBit
<1>2. Win!Check(win, n) <=> Win!FreshIn(acc, n)
  BY WindowAssumptions, Win!CheckIsFresh
<1>3. acc \in SUBSET Nat
  BY WindowType
<1>4. (\A m \in acc : m < n) => Win!FreshIn(acc, n)
  BY <1>3, SizeAssumption DEF Win!FreshIn
<1> QED
  BY <1>1, <1>2, <1>4 DEF Win!FreshIn

(* Committing an admitted nonce adds it to the nonces the window stands for.*)
LEMMA CommitAdds ==
  ASSUME NEW win, NEW acc, Win!Tracks(win, acc), NEW n \in Nat, Check(win, n)
  PROVE  Win!Tracks(Commit(win, n), acc \cup {n})
<1>1. Win!Check(win, n)
  BY DEF Check, Win!Check, getBit, Win!getBit
<1>2. Commit(win, n) = Win!Commit(win, n)
  BY DEF Commit, Win!Commit, advance, Win!advance, setBit, Win!setBit, InRange, Win!InRange,
         Panic, Win!Panic, Cleared, Win!Cleared,
         Slide, Win!Slide, ShiftLeft, Win!ShiftLeft, ShiftRight, Win!ShiftRight,
         windowStart, Win!windowStart, Words, Win!Words, NWords, Win!NWords
<1> QED
  BY <1>1, <1>2, WindowAssumptions, Win!CommitTracks

-----------------------------------------------------------------------------
LEMMA InitIInv == Init => IInv
<1> SUFFICES ASSUME Init PROVE IInv
  OBVIOUS
<1>1. TypeOK
  BY NewWindow, WindowType, MaxSessionAssumption, MaxNonceAssumption, RecvCapAssumption
     DEF Init, TypeOK, Sessions, WireNonces, Items, Frame
<1> QED
  BY <1>1, NewWindow, MaxSessionAssumption
     DEF Init, IInv, SenderInv, ReceiverInv, WindowInv, Items, Sessions

(* What the sender does leaves the receiver's invariant alone: frames are   *)
(* only ever added to those on the wire.                                    *)
LEMMA SenderSteps ==
  ASSUME ReceiverInv, UNCHANGED recvVars, sealed \subseteq sealed'
  PROVE  ReceiverInv'
<1>1. \A n : SentBefore(n) => SentBefore(n)'
  BY DEF SentBefore, recvVars
<1>2. PICK acc \in SUBSET Nat :
        /\ Win!Tracks(w, acc)
        /\ \A n \in acc : SentBefore(n)
        /\ recvSess # NoSession => \A n \in WireNonces : delivered[<<recvLast, n>>] # 0 => n \in acc
  BY DEF ReceiverInv, WindowInv
<1>3. WindowInv'
  BY <1>1, <1>2 DEF WindowInv, recvVars
<1> QED
  BY <1>1, <1>3 DEF ReceiverInv, recvVars

(* What the receiver does leaves the sender's invariant alone.              *)
LEMMA ReceiverSteps ==
  ASSUME SenderInv, UNCHANGED sendVars
  PROVE  SenderInv'
  BY DEF SenderInv, sendVars

(* Before a frame leaves, the sender's keys are those of its nonce.         *)
LEMMA DueCatchesUp ==
  ASSUME TypeOK, SenderInv
  PROVE  sendEpoch + Due = epochOf(sendCount) /\ epochOf(sendCount) \in Nat
<1>1. sendCount \in Nat /\ epochOf(sendCount) \in Nat /\ sendEpoch \in Nat
  BY EpochType, MaxNonceAssumption DEF TypeOK, WireNonces
<1>2. sendEpoch <= epochOf(sendCount)
  <2>1. CASE sendCount = 0
    BY <1>1, <2>1, EpochType DEF SenderInv
  <2>2. CASE sendCount # 0
    <3>1. sendCount - 1 \in Nat /\ sendCount - 1 <= sendCount
      BY <1>1, <2>2
    <3> QED
      BY <1>1, <2>2, <3>1, EpochMonotone DEF SenderInv
  <2> QED
    BY <2>1, <2>2
<1> QED
  BY <1>1, <1>2 DEF Due

LEMMA SendIInv == ASSUME IInv, Send PROVE IInv'
<1> USE DEF IInv
<1>1. /\ sendSess = sendLast /\ sendLast \in Sessions
      /\ sendCount \in Nat /\ sendCount <= MaxNonce
      /\ sendCount' = sendCount + 1
      /\ sendEpoch' = epochOf(sendCount) /\ sendKey' = epochOf(sendCount)
      /\ epochOf(sendCount) \in Nat
      /\ UNCHANGED <<sendSess, sendLast>>
  <2>1. sendCount \in Nat /\ (sendCount + 1) % (MaxNonce + 2) = sendCount + 1
    BY MaxNonceAssumption DEF Send, TypeOK, WireNonces
  <2> QED
    BY <2>1, DueCatchesUp DEF Send, TypeOK, SenderInv
<1> DEFINE f == [sess |-> sendLast, nonce |-> sendCount, key |-> epochOf(sendCount)]
<1>2. sealed' = sealed \cup {f} /\ UNCHANGED recvVars
  BY <1>1, DueCatchesUp DEF Send, Sealed, SenderInv
<1>3. f \in Frame
  BY <1>1, MaxNonceAssumption DEF Frame, WireNonces
<1>4. TypeOK'
  <2>1. sendCount' \in WireNonces
    BY <1>1, MaxNonceAssumption DEF WireNonces
  <2> QED
    BY <1>1, <1>2, <1>3, <2>1 DEF TypeOK, recvVars
<1>5. SenderInv'
  <2>1. sendKey' = sendEpoch' /\ sendEpoch' = IF sendCount' = 0 THEN 0 ELSE epochOf(sendCount' - 1)
    BY <1>1
  <2>2. ASSUME NEW g \in sealed'
        PROVE  /\ g.nonce <= MaxNonce /\ g.key = epochOf(g.nonce) /\ g.sess <= sendLast'
               /\ g.sess = sendLast' => g.nonce < sendCount'
    <3>1. CASE g = f
      BY <1>1, <3>1 DEF Sessions
    <3>2. CASE g \in sealed
      BY <1>1, <3>2 DEF SenderInv, TypeOK, Frame, WireNonces
    <3> QED
      BY <1>2, <3>1, <3>2
  <2> QED
    BY <2>1, <2>2 DEF SenderInv
<1> QED
  BY <1>2, <1>4, <1>5, SenderSteps

(* A frame that opens was sent in the receiver's session: a damaged one has *)
(* no session's key, and one of an earlier session has another key.         *)
LEMMA OpenedWasSent ==
  ASSUME IInv, NEW f \in sealed \cup Strays, recvSess # NoSession, Decryptable(f)
  PROVE  /\ f \in sealed /\ f.sess = recvLast /\ recvSess = recvLast
         /\ f.nonce \in WireNonces /\ f.nonce \in Nat /\ Item(f) \in Items
         /\ Item(f) = <<recvLast, f.nonce>>
         /\ recvEpoch + Jump(f.nonce) = epochOf(f.nonce) /\ epochOf(f.nonce) \in Nat
<1>1. f.sess = recvSess /\ recvSess = recvLast
  BY DEF Decryptable, Opens, IInv, TypeOK
<1>2. f \in sealed
  BY <1>1 DEF Strays
<1>3. f.nonce \in WireNonces /\ f.nonce \in Nat /\ f.sess \in Sessions
  BY <1>2, MaxNonceAssumption DEF IInv, TypeOK, Frame, WireNonces
<1>4. epochOf(f.nonce) \in Nat /\ recvEpoch \in Nat
  BY <1>3, EpochType DEF IInv, TypeOK
<1> QED
  BY <1>1, <1>2, <1>3, <1>4 DEF Item, Items, Jump

(* A plaintext that passes the gate was not handed over before.             *)
LEMMA AdmittedIsNew ==
  ASSUME IInv, NEW f \in sealed \cup Strays, recvSess # NoSession,
         Check(w, f.nonce), Decryptable(f)
  PROVE  delivered[Item(f)] = 0
<1>1. PICK acc \in SUBSET Nat :
        /\ Win!Tracks(w, acc)
        /\ \A n \in WireNonces : delivered[<<recvLast, n>>] # 0 => n \in acc
  BY DEF IInv, ReceiverInv, WindowInv
<1> QED
  BY <1>1, OpenedWasSent, GateFacts

LEMMA AcceptIInv ==
  ASSUME IInv, NEW f \in sealed \cup Strays, recvSess # NoSession,
         Check(w, f.nonce), Decryptable(f), Commits(f), Enqueue(f),
         UNCHANGED <<recvSess, recvLast>>, UNCHANGED sendVars
  PROVE  IInv'
<1>1. /\ f \in sealed /\ f.sess = recvLast /\ recvSess = recvLast
      /\ f.nonce \in WireNonces /\ f.nonce \in Nat /\ Item(f) \in Items
      /\ Item(f) = <<recvLast, f.nonce>>
      /\ recvEpoch' = epochOf(f.nonce) /\ recvKey' = epochOf(f.nonce)
      /\ epochOf(f.nonce) \in Nat
      /\ w' = Commit(w, f.nonce)
      /\ sealed' = sealed /\ recvLast' = recvLast /\ recvSess' = recvSess
  BY OpenedWasSent DEF Commits, IInv, ReceiverInv, sendVars
<1>2. /\ delivered \in [Items -> Nat] /\ recvLast \in Nat
      /\ \A x \in Items : delivered[x] \in {0, 1} /\ (x[1] > recvLast => delivered[x] = 0)
  BY DEF IInv, TypeOK, ReceiverInv, Sessions
<1>3. /\ delivered' \in [Items -> Nat]
      /\ \A x \in Items : delivered'[x] # delivered[x] => x = Item(f)
      /\ \A x \in Items : delivered'[x] \in {0, 1}
  <2>1. CASE UNCHANGED delivered
    BY <1>2, <2>1
  <2>2. CASE delivered' = [delivered EXCEPT ![Item(f)] = @ + 1]
    <3>1. delivered[Item(f)] = 0
      BY AdmittedIsNew
    <3>2. delivered' = [delivered EXCEPT ![Item(f)] = 1]
      BY <1>1, <1>2, <2>2, <3>1
    <3> QED
      BY <1>1, <1>2, <3>2
  <2> QED
    BY <2>1, <2>2 DEF Enqueue
<1>4. recv' \in Seq(Items) /\ Len(recv') <= RecvCap
  <2>1. recv \in Seq(Items) /\ Len(recv) <= RecvCap /\ RecvCap \in Nat
    BY RecvCapAssumption DEF IInv, TypeOK
  <2>2. CASE recv' = Append(recv, Item(f)) /\ ~(Len(recv) >= RecvCap)
    BY <1>1, <2>1, <2>2
  <2> QED
    BY <2>1, <2>2 DEF Enqueue
<1>5. \A n : SentBefore(n)' <=> SentBefore(n)
  BY <1>1 DEF SentBefore
<1>6. SentBefore(f.nonce)
  BY <1>1 DEF SentBefore
<1>7. PICK acc \in SUBSET Nat :
        /\ Win!Tracks(w, acc)
        /\ \A n \in acc : SentBefore(n)
        /\ \A n \in WireNonces : delivered[<<recvLast, n>>] # 0 => n \in acc
  BY DEF IInv, ReceiverInv, WindowInv
<1>8. Win!Tracks(w', acc \cup {f.nonce})
  BY <1>1, <1>7, CommitAdds
<1>9. WindowInv'
  <2>1. acc \cup {f.nonce} \in SUBSET Nat
    BY <1>1
  <2>2. \A n \in acc \cup {f.nonce} : SentBefore(n)'
    BY <1>5, <1>6, <1>7
  <2>3. ASSUME NEW n \in WireNonces, delivered'[<<recvLast, n>>] # 0 PROVE n \in acc \cup {f.nonce}
    <3>1. <<recvLast, n>> \in Items
      BY DEF IInv, TypeOK, Items
    <3> QED
      BY <1>1, <1>3, <1>7, <2>3, <3>1
  <2> QED
    BY <1>1, <1>8, <2>1, <2>2, <2>3 DEF WindowInv
<1>10. ReceiverInv'
  <2>1. \A x \in Items : x[1] > recvLast => delivered'[x] = 0
    BY <1>1, <1>2, <1>3
  <2> QED
    BY <1>1, <1>3, <1>5, <1>6, <1>9, <2>1 DEF ReceiverInv
<1>11. TypeOK'
  BY <1>1, <1>3, <1>4, <1>8, WindowType DEF IInv, TypeOK, sendVars
<1> QED
  BY <1>10, <1>11, ReceiverSteps DEF IInv

LEMMA OnDataIInv ==
  ASSUME IInv, NEW f \in sealed \cup Strays, onData(f)
  PROVE  IInv'
<1>1. CASE Check(w, f.nonce) /\ Decryptable(f)
  BY <1>1, AcceptIInv DEF onData
<1>2. CASE ~(Check(w, f.nonce) /\ Decryptable(f))
  <2>1. UNCHANGED <<recvVars, sendVars>>
    BY <1>2 DEF onData, Drop
  <2>2. TypeOK'
    BY <2>1 DEF IInv, TypeOK, recvVars, sendVars
  <2> QED
    BY <2>1, <2>2, SenderSteps, ReceiverSteps DEF IInv, sendVars
<1> QED
  BY <1>1, <1>2

LEMMA ConsumeIInv == ASSUME IInv, Consume PROVE IInv'
<1>1. recv' \in Seq(Items) /\ Len(recv') <= RecvCap
  BY RecvCapAssumption DEF IInv, TypeOK, Consume
<1>2. TypeOK'
  BY <1>1 DEF IInv, TypeOK, Consume, sendVars
<1>3. WindowInv'
  BY DEF IInv, ReceiverInv, WindowInv, SentBefore, Consume, sendVars
<1>4. ReceiverInv'
  BY <1>3 DEF IInv, ReceiverInv, SentBefore, Consume, sendVars
<1> QED
  BY <1>2, <1>4, ReceiverSteps DEF IInv, Consume

(* A new session of the sender starts with no frame of its own on the wire. *)
LEMMA SenderInstallsIInv ==
  ASSUME IInv, NEW s \in Sessions, SenderInstalls(s)
  PROVE  IInv'
<1>1. TypeOK'
  BY MaxNonceAssumption DEF IInv, TypeOK, SenderInstalls, recvVars, WireNonces
<1>2. SenderInv'
  <2>1. ASSUME NEW f \in sealed
        PROVE  f.nonce <= MaxNonce /\ f.key = epochOf(f.nonce) /\ f.sess <= s /\ f.sess # s
    <3>1. f.sess \in Nat /\ f.sess <= sendLast /\ sendLast \in Nat /\ s \in Nat /\ s > sendLast
      BY DEF IInv, TypeOK, SenderInv, SenderInstalls, Frame, Sessions
    <3> QED
      BY <3>1 DEF IInv, SenderInv
  <2> QED
    BY <2>1 DEF SenderInv, SenderInstalls
<1> QED
  BY <1>1, <1>2, SenderSteps DEF IInv, SenderInstalls

(* A new session of the receiver starts with an empty window, and nothing   *)
(* was handed over in it.                                                   *)
LEMMA ReceiverInstallsIInv ==
  ASSUME IInv, NEW s \in Sessions, ReceiverInstalls(s)
  PROVE  IInv'
<1>1. TypeOK'
  BY NewWindow, WindowType DEF IInv, TypeOK, ReceiverInstalls, sendVars
<1>2. /\ recvLast \in Nat /\ s \in Nat /\ s > recvLast /\ recvLast' = s
      /\ delivered' = delivered /\ w' = newReplayWindow
  BY DEF IInv, TypeOK, ReceiverInstalls, Sessions
<1>3. \A x \in Items : x[1] \in Nat
  BY DEF Items, Sessions
<1>4. \A x \in Items : delivered[x] \in {0, 1} /\ (x[1] > recvLast => delivered[x] = 0)
  BY DEF IInv, ReceiverInv
<1>5. \A x \in Items : x[1] >= s => delivered[x] = 0
  BY <1>2, <1>3, <1>4
<1>6. WindowInv'
  <2>1. \A n \in WireNonces : delivered[<<s, n>>] = 0
    BY <1>2, <1>5 DEF Items
  <2> QED
    BY <1>2, <2>1, NewWindow DEF WindowInv
<1>7. ReceiverInv'
  <2>1. \A x \in Items : x[1] > s => delivered[x] = 0
    BY <1>2, <1>3, <1>5
  <2> QED
    BY <1>2, <1>4, <1>6, <2>1 DEF ReceiverInv, ReceiverInstalls
<1> QED
  BY <1>1, <1>7, ReceiverSteps DEF IInv, ReceiverInstalls

LEMMA SenderRotatesIInv == ASSUME IInv, SenderRotates PROVE IInv'
<1>1. TypeOK'
  BY DEF IInv, TypeOK, SenderRotates, recvVars
<1>2. SenderInv'
  BY DEF IInv, SenderInv, SenderRotates
<1> QED
  BY <1>1, <1>2, SenderSteps DEF IInv, SenderRotates

LEMMA ReceiverRotatesIInv == ASSUME IInv, ReceiverRotates PROVE IInv'
<1>1. TypeOK'
  BY NewWindow, WindowType DEF IInv, TypeOK, ReceiverRotates, sendVars
<1>2. WindowInv'
  BY NewWindow DEF WindowInv, ReceiverRotates
<1>3. ReceiverInv'
  BY <1>2 DEF IInv, ReceiverInv, SentBefore, ReceiverRotates, sendVars
<1> QED
  BY <1>1, <1>3, ReceiverSteps DEF IInv, ReceiverRotates

LEMMA NextIInv == IInv /\ [Next]_vars => IInv'
<1> SUFFICES ASSUME IInv, [Next]_vars PROVE IInv'
  OBVIOUS
<1>1. CASE UNCHANGED vars
  <2>1. TypeOK'
    BY <1>1 DEF IInv, TypeOK, vars, sendVars, recvVars
  <2> QED
    BY <1>1, <2>1, SenderSteps, ReceiverSteps DEF IInv, vars, sendVars
<1> QED
  BY <1>1, SendIInv, OnDataIInv, ConsumeIInv, SenderInstallsIInv, ReceiverInstallsIInv,
     SenderRotatesIInv, ReceiverRotatesIInv DEF Next

-----------------------------------------------------------------------------
(* Keys, counters, window and deliveries stay in step in every state.       *)
THEOREM Invariance == Spec => []IInv
  BY InitIInv, NextIInv, PTL DEF Spec

(* Type correctness: in particular the counter of Session.Send never leaves *)
(* the nonces of the wire, and Peer.recv never exceeds its capacity.        *)
THEOREM TypeCorrect == Spec => []TypeOK
<1>1. IInv => TypeOK
  BY DEF IInv
<1> QED
  BY <1>1, Invariance, PTL

(* Session.Send never uses a nonce twice in a session, and always under the *)
(* key of the nonce's epoch, up to the last value of the counter.           *)
THEOREM NoncesUsedOnce == Spec => []NonceOnce
<1>1. ASSUME IInv PROVE NonceOnce
  <2>1. ASSUME NEW f \in sealed, NEW g \in sealed, Item(f) = Item(g) PROVE f = g
    <3>1. f \in Frame /\ g \in Frame
      BY <1>1 DEF IInv, TypeOK
    <3>2. f.sess = g.sess /\ f.nonce = g.nonce
      BY <2>1 DEF Item
    <3>3. f.key = g.key
      BY <1>1, <3>2 DEF IInv, SenderInv
    <3> QED
      BY <3>1, <3>2, <3>3 DEF Frame
  <2>2. ASSUME NEW f \in sealed, f.sess = sendSess PROVE f.nonce < sendCount
    <3>1. f.sess # NoSession
      BY <1>1 DEF IInv, TypeOK, Frame, Sessions, NoSession
    <3> QED
      BY <1>1, <2>2, <3>1 DEF IInv, TypeOK, SenderInv
  <2> QED
    BY <1>1, <2>1, <2>2 DEF NonceOnce, IInv, SenderInv
<1> QED
  BY <1>1, Invariance, PTL

(* In a session the receiver's epoch is that of a frame the sender sent.    *)
LEMMA ReceiverBehind ==
  ASSUME IInv, InOneSession
  PROVE  /\ recvEpoch \in Nat /\ sendEpoch \in Nat /\ recvEpoch <= sendEpoch
         /\ sendSess = sendLast /\ recvLast = sendLast
<1>1. /\ sendSess = sendLast /\ recvLast = sendLast
      /\ recvEpoch \in Nat /\ sendEpoch \in Nat /\ sendCount \in Nat
  BY MaxNonceAssumption DEF IInv, TypeOK, InOneSession, WireNonces
<1>2. CASE recvEpoch = 0
  BY <1>1, <1>2
<1>3. CASE recvEpoch # 0
  <2>1. PICK n \in WireNonces : SentBefore(n) /\ recvEpoch = epochOf(n)
    BY <1>3 DEF IInv, ReceiverInv
  <2>2. n \in Nat /\ n < sendCount
    BY <1>1, <2>1, MaxNonceAssumption DEF SentBefore, IInv, SenderInv, WireNonces
  <2>3. sendCount - 1 \in Nat /\ n <= sendCount - 1 /\ sendCount # 0
    BY <1>1, <2>2
  <2>4. epochOf(n) <= epochOf(sendCount - 1)
    BY <2>2, <2>3, EpochMonotone
  <2> QED
    BY <1>1, <2>1, <2>3, <2>4 DEF IInv, SenderInv
<1> QED
  BY <1>1, <1>2, <1>3

(* Session.DecryptAt never rekeys past the sender, whatever arrives.        *)
THEOREM ReceiverNeverAhead == Spec => []NeverAhead
<1>1. IInv => NeverAhead
  BY ReceiverBehind DEF NeverAhead, IInv, SenderInv, ReceiverInv
<1> QED
  BY <1>1, Invariance, PTL

(* Whatever was lost, repeated, reordered or damaged, and however often     *)
(* both ends rotated, the sender's next frame passes the gate and opens at  *)
(* a receiver that lags by no more than maxEpochJump epochs.                *)
THEOREM NextFrameOpens == Spec => []NextFrameAccepted
<1>1. ASSUME IInv PROVE NextFrameAccepted
  <2> DEFINE next == [sess |-> sendSess, nonce |-> sendCount, key |-> epochOf(sendCount)]
  <2> SUFFICES ASSUME InOneSession, sendCount <= MaxNonce, Jump(sendCount) <= MaxEpochJump
               PROVE  Check(w, sendCount) /\ Decryptable(next)
    BY DEF NextFrameAccepted
  <2>1. /\ recvEpoch \in Nat /\ sendEpoch \in Nat /\ recvEpoch <= sendEpoch
        /\ sendSess = sendLast /\ recvLast = sendLast
    BY <1>1, ReceiverBehind
  <2>2. sendCount \in Nat
    BY <1>1, MaxNonceAssumption DEF IInv, TypeOK, WireNonces
  <2>3. Check(w, sendCount)
    <3>1. PICK acc \in SUBSET Nat : Win!Tracks(w, acc) /\ \A n \in acc : SentBefore(n)
      BY <1>1 DEF IInv, ReceiverInv, WindowInv
    <3>2. \A n \in acc : n < sendCount
      BY <1>1, <2>1, <3>1 DEF SentBefore, IInv, SenderInv
    <3> QED
      BY <2>2, <3>1, <3>2, GateFacts
  <2>4. epochOf(sendCount) \in Nat /\ sendEpoch <= epochOf(sendCount)
    <3>1. sendEpoch + Due = epochOf(sendCount) /\ epochOf(sendCount) \in Nat
      BY <1>1, DueCatchesUp DEF IInv
    <3>2. Due \in Nat
      BY <2>1, <3>1 DEF Due
    <3> QED
      BY <2>1, <3>1, <3>2
  <2>5. Jump(sendCount) \in 0 .. MaxEpochJump
    BY <2>1, <2>4, MaxEpochJumpAssumption DEF Jump
  <2>6. Opens(next)
    BY <1>1, <2>1, <2>4 DEF Opens, Jump, InOneSession, IInv, ReceiverInv
  <2> QED
    BY <2>3, <2>5, <2>6 DEF Decryptable
<1> QED
  BY <1>1, Invariance, PTL

-----------------------------------------------------------------------------
(* The messages sent, as OnceChannel sees them.                             *)
Sent == {Item(f) : f \in {g \in sealed : ~Empty(g)}}

LEMMA SendRefines ==
  ASSUME IInv, Send
  PROVE  [Once!Next]_(Once!vars)
<1>1. /\ sendSess = sendLast /\ sendLast \in Sessions /\ sendCount \in WireNonces
      /\ UNCHANGED delivered
  BY DEF Send, IInv, TypeOK, recvVars
<1> DEFINE f == Sealed(Due)
<1>2. /\ sealed' = sealed \cup {f} /\ Item(f) = <<sendLast, sendCount>>
      /\ Item(f) \in Items
  BY <1>1 DEF Send, Sealed, Item, Items
<1> HIDE DEF f
<1>3. CASE Empty(f)
  <2>1. Sent' = Sent
    BY <1>2, <1>3 DEF Sent
  <2> QED
    BY <1>1, <2>1 DEF Once!vars, Sent
<1>4. CASE ~Empty(f)
  <2>1. Sent' = Sent \cup {Item(f)}
    BY <1>2, <1>4 DEF Sent
  <2>2. Item(f) \notin Sent
    <3>1. ASSUME NEW g \in sealed, Item(g) = Item(f) PROVE FALSE
      <4>1. g.sess = sendLast /\ g.nonce = sendCount
        BY <1>2, <3>1 DEF Item
      <4>2. g.nonce < sendCount
        BY <4>1 DEF IInv, SenderInv
      <4>3. sendCount \in Nat
        BY <1>1, MaxNonceAssumption DEF WireNonces
      <4> QED
        BY <4>1, <4>2, <4>3
    <3> QED
      BY <3>1 DEF Sent
  <2>3. Once!Send(Item(f))
    BY <1>1, <2>1, <2>2 DEF Once!Send, Sent
  <2> QED
    BY <1>2, <2>3 DEF Once!Next
<1> QED
  BY <1>3, <1>4

LEMMA OnDataRefines ==
  ASSUME IInv, NEW f \in sealed \cup Strays, onData(f)
  PROVE  [Once!Next]_(Once!vars)
<1>1. Sent' = Sent
  BY DEF onData, sendVars, Sent
<1>2. CASE UNCHANGED delivered
  BY <1>1, <1>2 DEF Once!vars, Sent
<1>3. CASE /\ Check(w, f.nonce) /\ Decryptable(f) /\ ~Empty(f)
           /\ delivered' = [delivered EXCEPT ![Item(f)] = @ + 1]
  <2>1. f \in sealed /\ Item(f) \in Items
    BY <1>3, OpenedWasSent DEF onData
  <2>2. delivered[Item(f)] = 0
    BY <1>3, AdmittedIsNew DEF onData
  <2>3. delivered' = [delivered EXCEPT ![Item(f)] = 1]
    BY <1>3, <2>2
  <2>4. Item(f) \in Sent
    BY <1>3, <2>1 DEF Sent
  <2>5. Once!Deliver(Item(f))
    BY <1>1, <2>2, <2>3, <2>4 DEF Once!Deliver, Sent
  <2> QED
    BY <2>1, <2>5 DEF Once!Next
<1> QED
  BY <1>2, <1>3 DEF onData, Enqueue, Drop, recvVars

(* Keys, nonces, windows and rotations implement the channel that hands     *)
(* over what was sent, and every message once.                              *)
THEOREM Refinement == Spec => OnceSpec
<1>1. Init => Once!Init
  BY DEF Init, Once!Init
<1>2. IInv /\ [Next]_vars => [Once!Next]_(Once!vars)
  <2> SUFFICES ASSUME IInv, [Next]_vars PROVE [Once!Next]_(Once!vars)
    OBVIOUS
  <2>1. CASE UNCHANGED <<sealed, delivered>>
    <3>1. UNCHANGED <<Sent, delivered>>
      BY <2>1 DEF Sent
    <3> QED
      BY <3>1 DEF Once!vars, Sent
  <2>2. CASE Consume \/ SenderRotates \/ ReceiverRotates \/ UNCHANGED vars
    BY <2>1, <2>2 DEF Consume, SenderRotates, ReceiverRotates, vars, sendVars, recvVars
  <2>3. ASSUME NEW s \in Sessions, SenderInstalls(s) \/ ReceiverInstalls(s)
        PROVE  UNCHANGED <<sealed, delivered>>
    BY <2>3 DEF SenderInstalls, ReceiverInstalls, sendVars, recvVars
  <2> QED
    BY <2>1, <2>2, <2>3, SendRefines, OnDataRefines DEF Next
<1> QED
  BY <1>1, <1>2, Invariance, PTL DEF Spec, OnceSpec, Once!Spec
=============================================================================
