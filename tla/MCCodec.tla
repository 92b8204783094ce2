------------------------------- MODULE MCCodec ------------------------------
(* Model-checking instance of Codec: each primitive at and just past the  *)
(* ends of its range, and around zero.                                     *)
EXTENDS Codec

CallsOf(p, S) == {[prim |-> p, val |-> v] : v \in S}

MCCalls ==
  CallsOf("boolean", BOOLEAN)
  \cup CallsOf("byte", {-129, -128, -1, 0, 127, 128})
  \cup CallsOf("unsigned_byte", {-1, 0, 255, 256})
  \cup CallsOf("short", {-32769, -32768, -1, 255, 256, 32767, 32768})
  \cup CallsOf("unsigned_short", {-1, 0, 65535, 65536})
  \cup CallsOf("int", {Int32Min, -1, 0, 2147483647})
  \cup CallsOf("long", {Int32Min, -1, 0, 2147483647})
  \* "", NUL, U+00E9, a lone surrogate, U+FFFF, U+1F600
  \cup CallsOf("char", {<<>>, <<0>>, <<233>>, <<55296>>, <<65535>>, <<128512>>})
  \* "" and "LS"
  \cup CallsOf("utf", {<<>>, <<76, 83>>})

=============================================================================
