---------------------------- MODULE ControlWrite ----------------------------
(***************************************************************************)
(* Goroutines of the coordinator that write to one control connection at   *)
(* the same time: control.Conn.WriteMsg under the mutex wm, and around it  *)
(* the write deadline that broadcast (src/internal/coordinator) sets       *)
(* before and clears after its WriteMsg, without holding wm.  The error    *)
(* replies and query results of handleClient call WriteMsg alone and       *)
(* ignore its error.                                                       *)
(*                                                                         *)
(* The connection's socket buffer takes Room messages until the client     *)
(* reads.  A Write that finds no room blocks until there is room, the      *)
(* write deadline passes, or the connection is closed.                     *)
(***************************************************************************)
EXTENDS Integers, Sequences

CONSTANTS Broadcasters,  \* goroutines in broadcast
          Repliers,      \* goroutines that write a reply
          Room,          \* bound: messages the socket buffer holds
          MaxWrites      \* bound: messages encrypted

Writers == Broadcasters \cup Repliers
Nobody == "nobody"

ASSUME RolesAssumption == Broadcasters \cap Repliers = {}
ASSUME RoomAssumption == Room \in Nat
ASSUME MaxWritesAssumption == MaxWrites \in Nat
ASSUME NobodyAssumption == Nobody \notin Writers

VARIABLES writer,    \* where each writer is
          holder,    \* who holds wm
          nonce,     \* the session's send counter
          ct,        \* per writer: the nonce of the ciphertext it is writing
          deadline,  \* a write deadline is set on the socket
          connected,
          buffered,  \* messages in the socket buffer
          wire       \* every message written: its nonce, its writer, and whether it is whole

connVars == <<writer, holder, nonce, ct, deadline, connected, buffered, wire>>

NoCt == -1
Message(w, whole) == [nonce |-> ct[w], by |-> w, whole |-> whole]

ConnInit ==
  /\ writer = [w \in Writers |-> "idle"]
  /\ holder = Nobody /\ nonce = 0
  /\ ct = [w \in Writers |-> NoCt]
  /\ deadline = FALSE /\ connected = TRUE
  /\ buffered = 0 /\ wire = <<>>

Proceed(w, l) == writer' = [writer EXCEPT ![w] = l]

\* broadcast sets the deadline before it calls WriteMsg.
SetDeadline(w) ==
  /\ w \in Broadcasters /\ writer[w] = "idle" /\ nonce < MaxWrites
  /\ deadline' = TRUE
  /\ Proceed(w, "lock")
  /\ UNCHANGED <<holder, nonce, ct, connected, buffered, wire>>

Reply(w) ==
  /\ w \in Repliers /\ writer[w] = "idle" /\ nonce < MaxWrites
  /\ Proceed(w, "lock")
  /\ UNCHANGED <<holder, nonce, ct, deadline, connected, buffered, wire>>

\* Mutant: a message is encrypted before the mutex is taken.
LockLate(w) ==
  \/ /\ writer[w] = "lock" /\ ct[w] = NoCt /\ nonce < MaxWrites
     /\ ct' = [ct EXCEPT ![w] = nonce] /\ nonce' = nonce + 1
     /\ UNCHANGED <<writer, holder, deadline, connected, buffered, wire>>
  \/ /\ writer[w] = "lock" /\ ct[w] # NoCt /\ holder = Nobody
     /\ holder' = w
     /\ deadline' = TRUE
     /\ Proceed(w, "write")
     /\ UNCHANGED <<nonce, ct, connected, buffered, wire>>

\* WriteMsg up to its Write: the mutex, Encrypt, and a deadline of its own.
Lock(w) ==
  /\ writer[w] = "lock" /\ holder = Nobody /\ nonce < MaxWrites
  /\ holder' = w
  /\ ct' = [ct EXCEPT ![w] = nonce] /\ nonce' = nonce + 1
  /\ deadline' = TRUE
  /\ Proceed(w, "write")
  /\ UNCHANGED <<connected, buffered, wire>>

\* Mutant: broadcast clears the deadline and takes that call's error for
\* WriteMsg's, so that a failed write is not seen.
ReturnOverwritten(w, ok) ==
  /\ holder' = Nobody
  /\ ct' = [ct EXCEPT ![w] = NoCt]
  /\ Proceed(w, IF w \in Repliers THEN "idle" ELSE "clear")

\* WriteMsg returns: a broadcaster goes on to clear the deadline.
Return(w, ok) ==
  /\ holder' = Nobody
  /\ ct' = [ct EXCEPT ![w] = NoCt]
  /\ Proceed(w, CASE w \in Repliers -> "idle"
               [] w \in Broadcasters /\ ok -> "clear"
               [] OTHER -> "clearEvict")

WriteDone(w) ==
  /\ writer[w] = "write" /\ connected /\ buffered < Room
  /\ buffered' = buffered + 1
  /\ wire' = Append(wire, Message(w, TRUE))
  /\ Return(w, TRUE)
  /\ UNCHANGED <<nonce, deadline, connected>>

\* The deadline passes while the buffer is full; part of the message may have
\* been written.
WriteTimesOut(w) ==
  /\ writer[w] = "write" /\ connected /\ deadline /\ buffered = Room
  /\ wire' = Append(wire, Message(w, FALSE))
  /\ Return(w, FALSE)
  /\ UNCHANGED <<nonce, deadline, connected, buffered>>

WriteError(w) ==
  /\ writer[w] = "write" /\ ~connected
  /\ Return(w, FALSE)
  /\ UNCHANGED <<nonce, deadline, connected, buffered, wire>>

\* broadcast clears the deadline, whoever may be writing by now.
ClearDeadline(w) ==
  /\ writer[w] \in {"clear", "clearEvict"}
  /\ deadline' = FALSE
  /\ Proceed(w, IF writer[w] = "clear" THEN "idle" ELSE "evict")
  /\ UNCHANGED <<holder, nonce, ct, connected, buffered, wire>>

\* Mutant: a failed write is only logged.
evictNot(w) ==
  /\ writer[w] = "evict"
  /\ Proceed(w, "idle")
  /\ UNCHANGED <<holder, nonce, ct, deadline, connected, buffered, wire>>

\* evict closes the connection.
evict(w) ==
  /\ writer[w] = "evict"
  /\ connected' = FALSE
  /\ Proceed(w, "idle")
  /\ UNCHANGED <<holder, nonce, ct, deadline, buffered, wire>>

\* The client reads a message; it may stop reading at any time.
ClientReads ==
  /\ connected /\ buffered > 0
  /\ buffered' = buffered - 1
  /\ UNCHANGED <<writer, holder, nonce, ct, deadline, connected, wire>>

WriterStep(w) ==
  \/ SetDeadline(w) \/ Reply(w) \/ Lock(w)
  \/ WriteDone(w) \/ WriteTimesOut(w) \/ WriteError(w)
  \/ ClearDeadline(w) \/ evict(w)

ConnNext == ClientReads \/ \E w \in Writers : WriterStep(w)

ConnSpec == ConnInit /\ [][ConnNext]_connVars

(* A goroutine keeps running, and a deadline that stays set passes; nothing  *)
(* is assumed of the client.                                                 *)
ConnFairness == \A w \in Writers :
  WF_connVars(WriteTimesOut(w) \/ WriteError(w) \/ ClearDeadline(w) \/ evict(w))

ConnFairSpec == ConnSpec /\ ConnFairness

-----------------------------------------------------------------------------
\* In particular, whoever writes to the socket holds the mutex.
ConnTypeOK ==
  /\ writer \in [Writers -> {"idle", "lock", "write", "clear", "clearEvict", "evict"}]
  /\ holder \in Writers \cup {Nobody}
  /\ \A w \in Writers : writer[w] = "write" => holder = w
  /\ nonce \in 0 .. MaxWrites
  /\ ct \in [Writers -> 0 .. MaxWrites \cup {NoCt}]
  /\ deadline \in BOOLEAN /\ connected \in BOOLEAN
  /\ buffered \in 0 .. Room
  /\ wire \in Seq([nonce : 0 .. MaxWrites, by : Writers, whole : BOOLEAN])

\* The client decrypts with a counter of its own (control: "in-order Decrypt
\* form suffices"): the messages are on the wire in the order they were
\* encrypted, none twice and none missing.
InOrder == \A i \in 1 .. Len(wire) : wire[i].nonce = i - 1

\* A broadcast timed out in the middle of its message.
Torn == \E i \in 1 .. Len(wire) : wire[i].by \in Broadcasters /\ ~wire[i].whole

\* Until the connection is closed, the broadcast that left a torn message on it
\* is on its way to evict: no reply or other broadcast that gets the mutex in
\* between takes that away, so the client never stays on a torn connection.
TornIsEvicting ==
  \A i \in 1 .. Len(wire) :
    ~wire[i].whole /\ wire[i].by \in Broadcasters /\ connected
      => writer[wire[i].by] \in {"clearEvict", "evict"}

\* A connection on which a broadcast left a torn message is closed: the client
\* could make no sense of anything that follows.
TornIsClosed == Torn ~> ~connected
=============================================================================
