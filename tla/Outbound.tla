------------------------------ MODULE Outbound ------------------------------
(***************************************************************************)
(* The outbound side of feedbus.client.Client: application tasks calling *)
(* publish, send and the add_/remove_ requests (client.py 80-119) at the  *)
(* same time.  Each call runs write_message (messages.py 113-154): its    *)
(* StreamWriter.write calls are synchronous, so a frame enters the        *)
(* transport's buffer whole, and then it awaits drain() (io.py 139-140).  *)
(* There is no lock: several calls may be suspended in drain() at once.   *)
(*                                                                         *)
(* asyncio's side, as far as it decides what a call returns:              *)
(*  - the socket transport buffers frames and pauses the protocol when it *)
(*    holds more than HighWater frames, resuming it at LowWater or less;  *)
(*  - a socket error clears the buffer, marks the transport lost (later  *)
(*    writes are dropped silently) and schedules connection_lost(exc),   *)
(*    which sets the reader's exception and fails the drain waiters;      *)
(*  - StreamWriter.drain raises the reader's exception, yields once when  *)
(*    the transport is closing, then raises ConnectionResetError if the   *)
(*    connection is lost, returns if not paused, or parks a waiter.  With *)
(*    LegacyDrain (Python 3.7-3.9) the protocol holds a single waiter and *)
(*    a second concurrent drain() fails its assertion.                    *)
(***************************************************************************)
EXTENDS Naturals, Sequences, FiniteSets

CONSTANTS
  Callers,     \* application tasks making outbound calls
  MaxCalls,    \* calls each task makes
  HighWater,   \* buffered frames above which the transport pauses writing
  LowWater,    \* buffered frames at or below which it resumes
  LegacyDrain  \* TRUE: asyncio before 3.10, one drain waiter at a time

ASSUME LowWater <= HighWater /\ LegacyDrain \in BOOLEAN

VARIABLES
  pc,          \* pc[c]: "idle", "yield" (drain's sleep(0)), "waiting"
               \* (parked on a drain waiter), "ok" or "raised"
  calls,       \* calls[c]: outbound calls task c has made
  accepted,    \* accepted[c]: the transport took the frame of c's last call
  buffer,      \* frames in the transport's write buffer, oldest first
  onWire,      \* frames the socket sent, in order
  paused,      \* FlowControlMixin._paused
  transportLost, \* the transport's _conn_lost: writes are dropped
  lostPending, \* connection_lost(exc) is scheduled and has not run
  connLost,    \* FlowControlMixin._connection_lost
  readerExc    \* the StreamReader holds the connection's exception

vars == <<pc, calls, accepted, buffer, onWire, paused, transportLost,
          lostPending, connLost, readerExc>>

Frames == Callers \X (1..MaxCalls)   \* frame <<c, n>>: c's n-th call

\* Each task has at most one frame buffered beyond the HighWater frames
\* that never pause it: every call awaits drain() after writing.
BufferLimit == HighWater + Cardinality(Callers)

TypeOK ==
  /\ pc \in [Callers -> {"idle", "yield", "waiting", "ok", "raised"}]
  /\ calls \in [Callers -> 0..MaxCalls]
  /\ accepted \in [Callers -> BOOLEAN]
  /\ buffer \in Seq(Frames) /\ Len(buffer) <= BufferLimit
  /\ onWire \in Seq(Frames)
  /\ paused \in BOOLEAN /\ transportLost \in BOOLEAN
  /\ lostPending \in BOOLEAN /\ connLost \in BOOLEAN /\ readerExc \in BOOLEAN

Waiters == {c \in Callers : pc[c] = "waiting"}

Init ==
  /\ pc = [c \in Callers |-> "idle"]
  /\ calls = [c \in Callers |-> 0]
  /\ accepted = [c \in Callers |-> FALSE]
  /\ buffer = <<>> /\ onWire = <<>>
  /\ paused = FALSE /\ transportLost = FALSE /\ lostPending = FALSE
  /\ connLost = FALSE /\ readerExc = FALSE

-----------------------------------------------------------------------------
\* Mutant: drain() parks a waiter even when writing is not paused.
DrainHelperParksUnpaused(c, isPaused) ==
  CASE connLost                             -> "raised"
    [] LegacyDrain /\ Waiters # {} /\ isPaused -> "raised"
    [] OTHER                                -> "waiting"

\* Mutant: a single drain waiter whatever the asyncio version.
DrainHelperSingleWaiter(c, isPaused) ==
  CASE connLost                 -> "raised"
    [] ~isPaused                -> "ok"
    [] Waiters # {}             -> "raised"
    [] OTHER                    -> "waiting"

(* FlowControlMixin._drain_helper: raise if the connection is lost,      *)
(* return if writing is not paused, else park a waiter (the legacy     *)
(* version asserts no other waiter is parked).                          *)
DrainHelper(c, isPaused) ==
  CASE connLost                             -> "raised"
    [] ~isPaused                            -> "ok"
    [] LegacyDrain /\ Waiters # {}         -> "raised"
    [] OTHER                                -> "waiting"

\* Mutant: drain() goes straight to _drain_helper, without yielding to
\* the loop when the transport is already closing.
DrainNoYield(c, isPaused) ==
  IF readerExc THEN "raised" ELSE DrainHelper(c, isPaused)

(* DataOutputStream.drain, StreamWriter.drain (io.py 139-140): the       *)
(* reader's exception first, then one yield if the transport is closing; *)
(* isPaused is the protocol's state after the frame was written.         *)
Drain(c, isPaused) ==
  CASE readerExc     -> "raised"
    [] transportLost -> "yield"
    [] OTHER         -> DrainHelper(c, isPaused)

\* The frame of call n of task c, written with StreamWriter.write: dropped
\* once the transport is lost, else buffered, pausing the protocol above
\* HighWater (_maybe_pause_protocol).
Written(c, n) == IF transportLost THEN buffer ELSE Append(buffer, <<c, n>>)

\* Mutant: the call returns once its frame is written, without drain().
CallNoDrain(c) ==
  /\ pc[c] \in {"idle", "ok", "raised"} /\ calls[c] < MaxCalls
  /\ calls' = [calls EXCEPT ![c] = @ + 1]
  /\ buffer' = Written(c, calls[c] + 1)
  /\ accepted' = [accepted EXCEPT ![c] = ~transportLost]
  /\ paused' = (paused \/ Len(buffer') > HighWater)
  /\ pc' = [pc EXCEPT ![c] = "ok"]
  /\ UNCHANGED <<onWire, transportLost, lostPending, connLost, readerExc>>

(* One outbound call (publish, send, add_/remove_ subscription,          *)
(* notification or monitor): write_message writes the whole frame, then *)
(* awaits drain().  Serialization and usage errors are Wire's concern. *)
Call(c) ==
  /\ pc[c] \in {"idle", "ok", "raised"} /\ calls[c] < MaxCalls
  /\ calls' = [calls EXCEPT ![c] = @ + 1]
  /\ buffer' = Written(c, calls[c] + 1)
  /\ accepted' = [accepted EXCEPT ![c] = ~transportLost]
  /\ paused' = (paused \/ Len(buffer') > HighWater)
  /\ pc' = [pc EXCEPT ![c] = Drain(c, paused')]
  /\ UNCHANGED <<onWire, transportLost, lostPending, connLost, readerExc>>

(* drain() resumes after its sleep(0).  connection_lost was scheduled   *)
(* before the yield, so the FIFO loop has run it first.                  *)
Resume(c) ==
  /\ pc[c] = "yield" /\ ~lostPending
  /\ pc' = [pc EXCEPT ![c] = DrainHelper(c, paused)]
  /\ UNCHANGED <<calls, accepted, buffer, onWire, paused, transportLost,
                 lostPending, connLost, readerExc>>


-----------------------------------------------------------------------------
(* The transport, driven by the event loop's selector.                    *)

(* _write_ready: the socket takes the oldest buffered frame; at LowWater *)
(* or below a paused protocol resumes, waking every drain waiter.        *)
Send ==
  /\ buffer # <<>> /\ ~transportLost
  /\ onWire' = Append(onWire, Head(buffer))
  /\ buffer' = Tail(buffer)
  /\ IF paused /\ Len(buffer') <= LowWater
       THEN /\ paused' = FALSE
            /\ pc' = [c \in Callers |-> IF pc[c] = "waiting" THEN "ok" ELSE pc[c]]
       ELSE UNCHANGED <<paused, pc>>
  /\ UNCHANGED <<calls, accepted, transportLost, lostPending, connLost, readerExc>>

(* The socket fails (reset by the peer, or a send error): _force_close   *)
(* drops the buffer and schedules connection_lost(exc).                   *)
SocketError ==
  /\ ~transportLost
  /\ transportLost' = TRUE /\ lostPending' = TRUE
  /\ buffer' = <<>>
  /\ UNCHANGED <<pc, calls, accepted, onWire, paused, connLost, readerExc>>

(* connection_lost(exc): the reader gets the exception, the protocol is  *)
(* marked lost, and drain waiters of a paused protocol get the exception. *)
ConnectionLost ==
  /\ lostPending
  /\ lostPending' = FALSE /\ connLost' = TRUE /\ readerExc' = TRUE
  /\ pc' = [c \in Callers |-> IF pc[c] = "waiting" THEN "raised" ELSE pc[c]]
  /\ UNCHANGED <<calls, accepted, buffer, onWire, paused, transportLost>>

Next ==
  \/ \E c \in Callers : Call(c) \/ Resume(c)
  \/ Send \/ SocketError \/ ConnectionLost

(* The event loop runs every ready task and callback; the server keeps   *)
(* reading, so a socket with buffered bytes is eventually writable.  The *)
(* connection need not fail, and no task need make another call.         *)
Spec ==
  /\ Init /\ [][Next]_vars
  /\ \A c \in Callers : WF_vars(Resume(c))
  /\ WF_vars(Send) /\ WF_vars(ConnectionLost)

-----------------------------------------------------------------------------
(* Properties.                                                             *)

(* Spec 4.3: a transport write error reaches the caller of the outbound  *)
(* operation.  A call that returns normally had its frame taken by the  *)
(* transport; a frame dropped because the socket had already failed is  *)
(* reported, which rests on drain() yielding until connection_lost ran. *)
ErrorsReported == \A c \in Callers : pc[c] = "ok" => accepted[c]

(* A call raises only because the connection failed: concurrent         *)
(* publishers awaiting drain() on a paused transport both return once  *)
(* it resumes.  write_message holds no lock (spec 5 asks for exclusive  *)
(* write access for the whole write-plus-flush).                        *)
OnlyTransportErrors == \A c \in Callers : pc[c] = "raised" => transportLost

(* No outbound call stays suspended in drain(): it returns when the      *)
(* transport resumes writing, or raises when the connection is lost.    *)
CallsComplete ==
  \A c \in Callers : (pc[c] \in {"yield", "waiting"}) ~> (pc[c] \in {"ok", "raised"})

=============================================================================
