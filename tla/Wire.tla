-------------------------------- MODULE Wire --------------------------------
(***************************************************************************)
(* One direction of a feedbus connection: one endpoint writes messages    *)
(* with write_message on its StreamWriter, the peer's receive loop reads  *)
(* them back with read_message from the same ordered byte stream.  The    *)
(* writer is the application calling publish/send/add_* (client.py        *)
(* 80-119), which may catch an exception and carry on writing.            *)
(***************************************************************************)
EXTENDS Messages

CONSTANTS
  Strs,      \* strings the application passes as feed, topic, client id
  Payloads,  \* payload bytes the serializer produces
  MaxWrites  \* bound on write_message calls

Msgs == MessagesOver(Strs, Payloads)

VARIABLES
  wire,      \* bytes written to the transport and not yet read by the peer
  sent,      \* messages whose write_message returned normally, in order
  received,  \* messages the peer's read_message returned, in order
  reader,    \* "reading", or "failed" once read_message raised
  writes     \* write_message calls so far

vars == <<wire, sent, received, reader, writes>>

TypeOK ==
  /\ wire \in Seq(Byte)
  /\ sent \in Seq(Msgs)
  /\ received \in Seq(Msgs)
  /\ reader \in {"reading", "failed"}
  /\ writes \in 0..MaxWrites

Init ==
  /\ wire = <<>> /\ sent = <<>> /\ received = <<>>
  /\ reader = "reading" /\ writes = 0

(* An outbound operation builds m and awaits write_message(m): its bytes *)
(* reach the transport; if a field raised, the call fails and only the  *)
(* bytes before that field were written.                                 *)
WriteMessage(m) ==
  /\ writes < MaxWrites
  /\ LET w == write_message(m) IN
       /\ wire' = wire \o w.out
       /\ sent' = IF w.err THEN sent ELSE Append(sent, m)
  /\ writes' = writes + 1
  /\ UNCHANGED <<received, reader>>

(* The peer's loop awaits read_message: it waits until the frame's bytes *)
(* are there, then returns the message or raises, which ends the loop.   *)
ReadMessage ==
  /\ reader = "reading"
  /\ LET r == read_message(wire) IN
       /\ r.st # "short"
       /\ IF r.st = "ok"
            THEN /\ received' = Append(received, r.val)
                 /\ wire' = SubSeq(wire, r.pos, Len(wire))
                 /\ UNCHANGED reader
            ELSE /\ reader' = "failed"
                 /\ UNCHANGED <<received, wire>>
  /\ UNCHANGED <<sent, writes>>

Next == (\E m \in Msgs : WriteMessage(m)) \/ ReadMessage

Spec == Init /\ [][Next]_vars

-----------------------------------------------------------------------------
(* The round-trip law (spec 8) over a stream: read_message never fails on *)
(* what write_message wrote, and returns the messages written, in order.  *)
(* It needs write_utf's length prefix to count the bytes read_utf reads   *)
(* and a failed write to leave no bytes on the wire.                       *)
RoundTrip == reader = "reading" /\ IsPrefix(received, sent)

(* The reader never waits for bytes while a message written whole is     *)
(* still unread: read_message can always go on, so each message written  *)
(* is read without the writer having to send anything more.              *)
NoStall ==
  (reader = "reading" /\ Len(received) < Len(sent)) =>
    read_message(wire).st # "short"

=============================================================================
