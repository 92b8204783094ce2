--------------------------- MODULE ReceiveChannel ---------------------------
(***************************************************************************)
(* What the receive side of the feedbus client promises, stated without   *)
(* asyncio: the server's frames arrive on the byte stream in segments;    *)
(* the receive loop queues whole frames in stream order and stops at the *)
(* first frame it cannot decode, at the end of the stream, or when the   *)
(* connection fails (frames still buffered are then lost); stop() ends   *)
(* the loop, after at most the one frame being handled; read() hands the *)
(* application what was queued, in order.                                 *)
(*                                                                         *)
(* Client (the detailed model of client.py) implements this specification *)
(* under the refinement mapping given in Client.tla.                      *)
(***************************************************************************)
EXTENDS Naturals, Sequences

CONSTANTS NFrames, Kinds

Frames == 1..NFrames

VARIABLES
  kind,      \* kind[f]: what the server sends as frame f
  arrived,   \* segments of the byte stream received (two per frame)
  eof,       \* the server closed the stream
  reset,     \* the connection failed (the reader holds its exception)
  stopped,   \* stop() was called
  loop,      \* the receive loop: "running", "done" or "failed"
  queued,    \* frames put on the receive queue, in order
  delivered  \* frames returned by read(), in order

cvars == <<kind, arrived, eof, reset, stopped, loop, queued, delivered>>

\* The frame the receive loop handles next.
NextFrame == Len(queued) + 1

Init ==
  /\ kind \in [Frames -> Kinds]
  /\ arrived = 0 /\ eof = FALSE /\ reset = FALSE /\ stopped = FALSE
  /\ loop = "running" /\ queued = <<>> /\ delivered = <<>>

Arrive ==
  /\ ~eof /\ ~reset /\ arrived < 2 * NFrames
  /\ arrived' = arrived + 1
  /\ UNCHANGED <<kind, eof, reset, stopped, loop, queued, delivered>>

Close ==
  /\ ~eof /\ ~reset /\ eof' = TRUE
  /\ UNCHANGED <<kind, arrived, reset, stopped, loop, queued, delivered>>

\* The connection fails, possibly after the server closed it.
Reset ==
  /\ ~reset /\ reset' = TRUE
  /\ UNCHANGED <<kind, arrived, eof, stopped, loop, queued, delivered>>

Stop ==
  /\ ~stopped /\ stopped' = TRUE
  /\ UNCHANGED <<kind, arrived, eof, reset, loop, queued, delivered>>

\* A whole decodable frame is queued; a stop already requested then ends
\* the loop.
Receive ==
  /\ loop = "running"
  /\ NextFrame \in Frames /\ 2 * NextFrame <= arrived
  /\ kind[NextFrame] \in {"data", "ctrl"}
  /\ queued' = Append(queued, NextFrame)
  /\ loop' = IF stopped THEN "done" ELSE "running"
  /\ UNCHANGED <<kind, arrived, eof, reset, stopped, delivered>>

Exit ==
  /\ loop = "running" /\ stopped
  /\ loop' = "done"
  /\ UNCHANGED <<kind, arrived, eof, reset, stopped, queued, delivered>>

\* The next frame has a bad tag (known after its first segment), a payload
\* the serializer rejects (known once whole), or the stream ended first;
\* or the connection failed, whatever is buffered.
Fail ==
  /\ loop = "running"
  /\ \/ NextFrame \in Frames /\ kind[NextFrame] = "bad" /\ 2 * NextFrame - 1 <= arrived
     \/ NextFrame \in Frames /\ kind[NextFrame] = "junk" /\ 2 * NextFrame <= arrived
     \/ eof /\ 2 * NextFrame > arrived
     \/ reset
  /\ loop' = "failed"
  /\ UNCHANGED <<kind, arrived, eof, reset, stopped, queued, delivered>>

Deliver ==
  /\ delivered # queued
  /\ delivered' = queued
  /\ UNCHANGED <<kind, arrived, eof, reset, stopped, loop, queued>>

Next == Arrive \/ Close \/ Reset \/ Stop \/ Receive \/ Exit \/ Fail \/ Deliver

(* The loop and read() make progress; the server and the caller of stop() *)
(* need not.                                                               *)
Spec ==
  /\ Init /\ [][Next]_cvars
  /\ WF_cvars(Receive) /\ WF_cvars(Exit) /\ WF_cvars(Fail) /\ WF_cvars(Deliver)

=============================================================================
