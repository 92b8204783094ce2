----------------------------- MODULE Connection -----------------------------
(***************************************************************************)
(* One feedbus Client: its receive loop (Client) and its outbound calls   *)
(* (Outbound) share one socket transport.  A socket failure found by      *)
(* either half (_read_ready or _write_ready failing) goes through the     *)
(* transport's _force_close: reading stops, the write buffer is dropped  *)
(* and connection_lost(exc) is scheduled.  That one callback fails the   *)
(* protocol's drain waiters and stores the exception in the StreamReader, *)
(* where the receive loop's readexactly and every later drain() find it  *)
(* (Outbound's readerExc is Client's rexc).                              *)
(***************************************************************************)
EXTENDS Naturals, Sequences, FiniteSets

CONSTANTS NFrames, Main, Tok, App, Kinds,
          Callers, MaxCalls, HighWater, LowWater, LegacyDrain

VARIABLES
  \* the receive side, as in Client
  kind, arrived, taken, eof, rexc, rwaiter, ready, mainPc, rd, waitOn,
  waitGen, waiterSet, rpc, rfr, tokPc, token, queue, consumed, getter,
  fullAtStop, flightAtStop,
  \* the send side, as in Outbound
  pc, calls, accepted, buffer, onWire, paused, transportLost, lostPending,
  connLost

Recv == INSTANCE Client
Send == INSTANCE Outbound WITH readerExc <- rexc

recvVars == <<kind, arrived, taken, eof, rwaiter, ready, mainPc, rd, waitOn,
              waitGen, waiterSet, rpc, rfr, tokPc, token, queue, consumed,
              getter, fullAtStop, flightAtStop>>
sendVars == <<pc, calls, accepted, buffer, onWire, paused, transportLost,
              lostPending, connLost>>
vars == <<recvVars, sendVars, rexc>>

Init == Recv!Init /\ Send!Init

\* A callback of the receive side runs (start(), its tasks, read()).
RecvDispatch == Recv!Dispatch /\ UNCHANGED sendVars

\* stop() is called; bytes or EOF arrive while the transport still reads.
RecvEnv ==
  /\ Recv!Stop \/ (~transportLost /\ (Recv!FeedData \/ Recv!FeedEof))
  /\ UNCHANGED sendVars

\* An outbound call writes its frame, or resumes in drain().
Caller(c) == (Send!Call(c) \/ Send!Resume(c)) /\ UNCHANGED recvVars

\* The selector finds the socket writable.
Transmit == Send!Send /\ UNCHANGED recvVars

\* A read or write on the socket fails: _force_close.
SocketError == Send!SocketError /\ UNCHANGED recvVars

(* connection_lost(exc) (client.py 40-42 opened the connection through  *)
(* open_connection): StreamReaderProtocol.connection_lost sets the       *)
(* reader's exception, waking the read task parked on it, and            *)
(* FlowControlMixin.connection_lost fails the drain waiters.             *)
ConnectionLost == Send!ConnectionLost /\ Recv!ConnectionLost

Next ==
  \/ RecvDispatch \/ RecvEnv \/ \E c \in Callers : Caller(c)
  \/ Transmit \/ SocketError \/ ConnectionLost

(* One event loop runs every ready callback of both halves; the socket  *)
(* is writable while the server reads.  Nothing obliges the socket to   *)
(* fail, the server to send, or the application to call stop().          *)
Spec ==
  /\ Init /\ [][Next]_vars
  /\ WF_vars(RecvDispatch)
  /\ \A c \in Callers : WF_vars(Send!Resume(c) /\ UNCHANGED recvVars)
  /\ WF_vars(Transmit) /\ WF_vars(ConnectionLost)

-----------------------------------------------------------------------------
(* Properties.                                                             *)

(* Spec 7(a): a transport error is fatal to the connection and surfaces  *)
(* to the operations in progress.  Once the socket has failed, by a read *)
(* or by a write, the receive loop ends and no outbound call stays       *)
(* suspended in drain(): connection_lost must reach the read task parked *)
(* in readexactly as well as the drain waiters.                          *)
FailureSurfaces ==
  transportLost ~>
    (mainPc \in {"done", "failed"} /\ \A c \in Callers : pc[c] \notin {"yield", "waiting"})

=============================================================================
