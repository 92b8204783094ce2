------------------------------ MODULE Messages ------------------------------
(***************************************************************************)
(* The message model and wire codec of src/python3/src/feedbus/           *)
(* messages.py.  A message is the record make_* builds (the Python dict); *)
(* write_message gives the bytes it writes before raising or draining,    *)
(* read_message parses one frame from the front of the buffered bytes.    *)
(***************************************************************************)
EXTENDS DataStream, TLC

\* MessageType: the type tag of each message type name.
MessageType ==
  [multicast_data |-> 0, unicast_data |-> 1,
   forwarded_subscription_request |-> 2, notification_request |-> 3,
   subscription_request |-> 4, monitor_request |-> 5]

TypeName(v) == CHOOSE n \in DOMAIN MessageType : MessageType[n] = v

make_multicast_data(feed, topic, is_image, data) ==
  [type |-> "multicast_data", feed |-> feed, topic |-> topic,
   is_image |-> is_image, data |-> data]

make_unicast_data(client_id, feed, topic, is_image, data) ==
  [type |-> "unicast_data", client_id |-> client_id, feed |-> feed,
   topic |-> topic, is_image |-> is_image, data |-> data]

make_forwarded_subscription_request(client_id, feed, topic, is_add) ==
  [type |-> "forwarded_subscription_request", client_id |-> client_id,
   feed |-> feed, topic |-> topic, is_add |-> is_add]

make_notification_request(feed, is_add) ==
  [type |-> "notification_request", feed |-> feed, is_add |-> is_add]

make_subscription_request(feed, topic, is_add) ==
  [type |-> "subscription_request", feed |-> feed, topic |-> topic,
   is_add |-> is_add]

make_monitor_request(feed, is_add) ==
  [type |-> "monitor_request", feed |-> feed, is_add |-> is_add]

\* Every message make_* can build from strings S and payloads P.
MessagesOver(S, P) ==
  {make_multicast_data(f, t, i, d) : f, t \in S, i \in BOOLEAN, d \in P}
  \cup {make_unicast_data(c, f, t, i, d) : c, f, t \in S, i \in BOOLEAN, d \in P}
  \cup {make_forwarded_subscription_request(c, f, t, a) :
          c, f, t \in S, a \in BOOLEAN}
  \cup {make_notification_request(f, a) : f \in S, a \in BOOLEAN}
  \cup {make_subscription_request(f, t, a) : f, t \in S, a \in BOOLEAN}
  \cup {make_monitor_request(f, a) : f \in S, a \in BOOLEAN}

\* How each field goes on the wire.
FieldKind(name) ==
  CASE name \in {"feed", "topic", "client_id"} -> "utf"
    [] name \in {"is_image", "is_add"}         -> "bool"
    [] name = "data"                            -> "payload"

-----------------------------------------------------------------------------
(* write_message (messages.py 113-154).                                    *)

\* Mutant: the unicast branch writes feed before client_id.
WriteOrderSwapped ==
  [multicast_data |-> <<"feed", "topic", "is_image", "data">>,
   unicast_data |-> <<"feed", "client_id", "topic", "is_image", "data">>,
   forwarded_subscription_request |-> <<"client_id", "feed", "topic", "is_add">>,
   notification_request |-> <<"feed", "is_add">>,
   subscription_request |-> <<"feed", "topic", "is_add">>,
   monitor_request |-> <<"feed", "is_add">>]

\* The fields each branch of write_message writes, in order.
WriteOrder ==
  [multicast_data |-> <<"feed", "topic", "is_image", "data">>,
   unicast_data |-> <<"client_id", "feed", "topic", "is_image", "data">>,
   forwarded_subscription_request |-> <<"client_id", "feed", "topic", "is_add">>,
   notification_request |-> <<"feed", "is_add">>,
   subscription_request |-> <<"feed", "topic", "is_add">>,
   monitor_request |-> <<"feed", "is_add">>]

\* Mutant: the payload length written counts one byte too many.
WriteFieldLongLength(name, v) ==
  CASE FieldKind(name) = "utf"  -> write_utf(v)
    [] FieldKind(name) = "bool" -> write_boolean(v)
    [] OTHER -> [out |-> write_int(Len(v) + 1).out \o v, err |-> FALSE]

\* write_int(len(data)) then write_fully(data); struct.pack('>i') raises
\* on a length of 2^31 or more, before any byte of the field is written.
WriteData(d) ==
  IF d = HugeData THEN [out |-> <<>>, err |-> TRUE]
  ELSE [out |-> write_int(Len(d)).out \o write_fully(d).out, err |-> FALSE]

\* One field: write_utf, write_boolean, or the payload.
WriteField(name, v) ==
  CASE FieldKind(name) = "utf"  -> write_utf(v)
    [] FieldKind(name) = "bool" -> write_boolean(v)
    [] OTHER -> WriteData(v)

\* The tag, then the fields, each written to the transport at once; the
\* first field whose packing raises ends the write, the bytes before it
\* stay written.  drain() then flushes.
write_message(m) ==
  LET step(acc, name) ==
        IF acc.err THEN acc
        ELSE LET w == WriteField(name, m[name])
             IN [out |-> acc.out \o w.out, err |-> w.err]
  IN FoldLeft(step, write_byte(MessageType[m.type]),
              WriteOrder[m.type])

-----------------------------------------------------------------------------
(* read_message (messages.py 72-110).                                      *)

\* Mutant: the forwarded_subscription_request branch skips client_id.
ReadOrderNoClientId ==
  [multicast_data |-> <<"feed", "topic", "is_image", "data">>,
   unicast_data |-> <<"client_id", "feed", "topic", "is_image", "data">>,
   forwarded_subscription_request |-> <<"feed", "topic", "is_add">>,
   notification_request |-> <<"feed", "is_add">>,
   subscription_request |-> <<"feed", "topic", "is_add">>,
   monitor_request |-> <<"feed", "is_add">>]

\* The fields each branch of read_message reads, in order.
ReadOrder ==
  [multicast_data |-> <<"feed", "topic", "is_image", "data">>,
   unicast_data |-> <<"client_id", "feed", "topic", "is_image", "data">>,
   forwarded_subscription_request |-> <<"client_id", "feed", "topic", "is_add">>,
   notification_request |-> <<"feed", "is_add">>,
   subscription_request |-> <<"feed", "topic", "is_add">>,
   monitor_request |-> <<"feed", "is_add">>]

\* One field: read_utf, read_boolean, or read_int then read_fully.
ReadField(name, bs, p) ==
  CASE FieldKind(name) = "utf"  -> read_utf(bs, p)
    [] FieldKind(name) = "bool" -> read_boolean(bs, p)
    [] OTHER -> LET n == read_int(bs, p) IN
                IF n.st # "ok" THEN n ELSE read_fully(bs, n.pos, n.val)

\* Read the fields in order into the message record m.
RECURSIVE ReadFields(_, _, _, _)
ReadFields(order, bs, p, m) ==
  IF order = <<>> THEN Ok(m, p)
  ELSE LET r == ReadField(Head(order), bs, p) IN
       IF r.st # "ok" THEN r
       ELSE ReadFields(Tail(order), bs, r.pos, m @@ (Head(order) :> r.val))

\* MessageType(read_byte()) raises ValueError on a tag outside 0..5.
read_message(bs) ==
  LET t == read_byte(bs, 1) IN
  CASE t.st # "ok"              -> t
    [] t.val \notin 0..5        -> Error
    [] OTHER -> ReadFields(ReadOrder[TypeName(t.val)], bs, t.pos,
                           [type |-> TypeName(t.val)])

=============================================================================
