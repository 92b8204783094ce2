------------------------------- MODULE Codec --------------------------------
(***************************************************************************)
(* The primitives of io.py on one stream: an application writes values    *)
(* with DataOutputStream's writers, one after another, and a peer reads   *)
(* them back with the matching DataInputStream readers.  A writer whose   *)
(* struct.pack raises writes nothing, so the reader skips that call.      *)
(* (write_utf of a lone surrogate writes its prefix and then raises; no  *)
(* string of Calls holds one.)                                          *)
(* Floats and doubles (write_float, write_double and their readers) are   *)
(* IEEE-754 conversions and are not modelled.                              *)
(***************************************************************************)
EXTENDS DataStream

CONSTANTS
  Calls,     \* writer calls: [prim |-> primitive name, val |-> argument]
  MaxWrites  \* bound on the writer calls made on the stream

VARIABLE written   \* the writer calls made, in order

\* The DataOutputStream method for primitive p.
Writer(p, v) ==
  CASE p = "boolean"        -> write_boolean(v)
    [] p = "byte"           -> write_byte(v)
    [] p = "unsigned_byte"  -> write_unsigned_byte(v)
    [] p = "short"          -> write_short(v)
    [] p = "unsigned_short" -> write_unsigned_short(v)
    [] p = "int"            -> write_int(v)
    [] p = "long"           -> write_long(v)
    [] p = "char"           -> write_char(v)
    [] p = "utf"            -> write_utf(v)

\* The DataInputStream method for primitive p, reading at position i.
Reader(p, bs, i) ==
  CASE p = "boolean"        -> read_boolean(bs, i)
    [] p = "byte"           -> read_byte(bs, i)
    [] p = "unsigned_byte"  -> read_unsigned_byte(bs, i)
    [] p = "short"          -> read_short(bs, i)
    [] p = "unsigned_short" -> read_unsigned_short(bs, i)
    [] p = "int"            -> read_int(bs, i)
    [] p = "long"           -> read_long(bs, i)
    [] p = "char"           -> read_char(bs, i)
    [] p = "utf"            -> read_utf(bs, i)

Init == written = <<>>

Write(c) ==
  /\ Len(written) < MaxWrites
  /\ written' = Append(written, c)

Next == \E c \in Calls : Write(c)

Spec == Init /\ [][Next]_written

-----------------------------------------------------------------------------
\* The bytes on the stream, and the calls that wrote them.
Stream == FoldLeft(LAMBDA acc, c : acc \o Writer(c.prim, c.val).out, <<>>, written)
Kept   == SelectSeq(written, LAMBDA c : ~Writer(c.prim, c.val).err)

\* Read the values of calls cs from position p of bs, in order.
RECURSIVE ReadBack(_, _, _)
ReadBack(cs, bs, p) ==
  IF cs = <<>> THEN Ok(<<>>, p)
  ELSE LET r == Reader(Head(cs).prim, bs, p) IN
       IF r.st # "ok" THEN r
       ELSE LET rest == ReadBack(Tail(cs), bs, r.pos) IN
            IF rest.st # "ok" THEN rest ELSE Ok(<<r.val>> \o rest.val, rest.pos)

(* Spec 4.1 (symmetric primitives): the readers, applied in the order of *)
(* the writes that did not raise, return exactly the values written and  *)
(* end at the end of the stream.  It needs every writer to emit as many  *)
(* bytes as its reader takes, big-endian, and the signed readers to undo *)
(* the two's complement the writers produce.                            *)
StreamLaw ==
  LET r == ReadBack(Kept, Stream, 1) IN
  /\ r.st = "ok"
  /\ r.val = [i \in DOMAIN Kept |-> Kept[i].val]
  /\ r.pos = Len(Stream) + 1

=============================================================================
