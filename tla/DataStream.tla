----------------------------- MODULE DataStream -----------------------------
(***************************************************************************)
(* The binary stream codec of src/python3/src/feedbus/io.py, as pure      *)
(* operators over byte sequences (a byte is 0..255).                       *)
(*                                                                         *)
(* DataOutputStream's writers become operators from a value to the bytes  *)
(* passed to StreamWriter.write, or to [out |-> bytes, err |-> TRUE] when  *)
(* struct.pack raises.  DataInputStream's readers become operators from   *)
(* the buffered bytes and a read position to a result: "ok" with a value  *)
(* and the next position, "short" when readexactly would wait for more   *)
(* bytes, or "error" when it or the decoding raises.                      *)
(* A string is a sequence of Unicode code points (Python str).  Huge      *)
(* stands for a string of more than 65535 characters, HugeData for bytes   *)
(* of 2^31 or more (lengths TLC's integers cannot hold).                  *)
(***************************************************************************)
EXTENDS Integers, Sequences, SequencesExt

CONSTANTS
  Huge,     \* a string of more than 65535 characters
  HugeData  \* a payload of 2^31 bytes or more

Byte == 0..255

Ok(v, p)  == [st |-> "ok", val |-> v, pos |-> p]
Short     == [st |-> "short", val |-> 0, pos |-> 0]
Error     == [st |-> "error", val |-> 0, pos |-> 0]

-----------------------------------------------------------------------------
(* UTF-8 (str.encode / bytes.decode with the strict "utf-8" codec).        *)

\* The UTF-8 bytes of code point c (not a surrogate).
Utf8(c) ==
  CASE c < 128   -> <<c>>
    [] c < 2048  -> <<192 + c \div 64, 128 + (c % 64)>>
    [] c < 65536 -> <<224 + c \div 4096, 128 + ((c \div 64) % 64), 128 + (c % 64)>>
    [] OTHER     -> <<240 + c \div 262144, 128 + ((c \div 4096) % 64),
                      128 + ((c \div 64) % 64), 128 + (c % 64)>>

EncodeUtf8(s) == FlattenSeq([i \in DOMAIN s |-> Utf8(s[i])])

Cont(b) == b \in 128..191

\* Range of the second byte after lead byte b (no overlong form, no
\* surrogate, nothing above U+10FFFF); the later bytes are any Cont.
SecondRange(b) ==
  CASE b = 224 -> 160..191
    [] b = 237 -> 128..159
    [] b = 240 -> 144..191
    [] b = 244 -> 128..143
    [] OTHER   -> 128..191

\* Bytes in a sequence starting with lead byte b, or 0 if b cannot lead.
SeqLen(b) ==
  CASE b < 128         -> 1
    [] b \in 194..223  -> 2
    [] b \in 224..239  -> 3
    [] b \in 240..244  -> 4
    [] OTHER           -> 0

\* The code point of the well-formed sequence bs.
CodePoint(bs) ==
  CASE Len(bs) = 1 -> bs[1]
    [] Len(bs) = 2 -> (bs[1] - 192) * 64 + (bs[2] - 128)
    [] Len(bs) = 3 -> (bs[1] - 224) * 4096 + (bs[2] - 128) * 64 + (bs[3] - 128)
    [] OTHER       -> (bs[1] - 240) * 262144 + (bs[2] - 128) * 4096
                      + (bs[3] - 128) * 64 + (bs[4] - 128)

\* bytes.decode("utf-8"): the code points, or Error (UnicodeDecodeError).
RECURSIVE DecodeUtf8(_)
DecodeUtf8(bs) ==
  IF bs = <<>> THEN Ok(<<>>, 0)
  ELSE LET n == SeqLen(bs[1]) IN
       IF \/ n = 0 \/ n > Len(bs)
          \/ (n > 1 /\ bs[2] \notin SecondRange(bs[1]))
          \/ \E i \in 3..n : ~Cont(bs[i])
       THEN Error
       ELSE LET rest == DecodeUtf8(SubSeq(bs, n + 1, Len(bs))) IN
            IF rest.st = "error" THEN Error
            ELSE Ok(<<CodePoint(SubSeq(bs, 1, n))>> \o rest.val, 0)

-----------------------------------------------------------------------------
(* struct.pack / struct.unpack for the big-endian integer formats.        *)

\* The n bytes of v in two's complement, most significant first (\div and
\* % round toward minus infinity, so a negative v gives its complement).
RECURSIVE BigEndian(_, _)
BigEndian(v, n) ==
  IF n = 0 THEN <<>> ELSE BigEndian(v \div 256, n - 1) \o <<v % 256>>

\* struct.pack of a format of n bytes with range lo..hi: struct.error
\* outside it.
Pack(v, n, lo, hi) ==
  IF lo <= v /\ v <= hi THEN [out |-> BigEndian(v, n), err |-> FALSE]
                        ELSE [out |-> <<>>, err |-> TRUE]

\* Mutant: the negative value is the complemented sum, without the borrow.
SignedNoBorrow(b) ==
  IF b[1] < 128 THEN FoldLeft(LAMBDA acc, x : acc * 256 + x, 0, b)
  ELSE -FoldLeft(LAMBDA acc, x : acc * 256 + (255 - x), 0, b)

\* Unsigned and signed (two's complement) big-endian values of bytes b;
\* the signed form sums the complemented bytes so that no intermediate
\* leaves TLC's integers for a value that fits them.
Unsigned(b) == FoldLeft(LAMBDA acc, x : acc * 256 + x, 0, b)
Signed(b) ==
  IF b[1] < 128 THEN Unsigned(b)
  ELSE -FoldLeft(LAMBDA acc, x : acc * 256 + (255 - x), 0, b) - 1

Int32Min == -2147483647 - 1

-----------------------------------------------------------------------------
(* DataOutputStream (io.py 73-136): each writer packs its value, which may *)
(* raise, then passes the bytes to StreamWriter.write.                     *)

write_boolean(b)        == [out |-> <<IF b THEN 1 ELSE 0>>, err |-> FALSE]
write_byte(v)           == Pack(v, 1, -128, 127)
write_unsigned_byte(v)  == Pack(v, 1, 0, 255)
write_short(v)          == Pack(v, 2, -32768, 32767)
write_unsigned_short(v) == Pack(v, 2, 0, 65535)
write_int(v)            == Pack(v, 4, Int32Min, 2147483647)
\* '>q' holds every integer TLC can represent.
write_long(v)           == [out |-> BigEndian(v, 8), err |-> FALSE]
\* ord(val[0]) packed as '>H': IndexError on "", struct.error above U+FFFF.
write_char(s) ==
  IF s = <<>> THEN [out |-> <<>>, err |-> TRUE] ELSE Pack(s[1], 2, 0, 65535)
write_fully(d)          == [out |-> d, err |-> FALSE]

\* Code points Python's str may hold that strict UTF-8 cannot encode.
Surrogate == 55296..57343

\* write_utf: the length written is len(val), the number of characters;
\* a lone surrogate makes val.encode raise after the prefix was written.
write_utf(s) ==
  CASE s = Huge                              -> [out |-> <<>>, err |-> TRUE]
    [] \E i \in DOMAIN s : s[i] \in Surrogate -> [out |-> BigEndian(Len(s), 2), err |-> TRUE]
    [] OTHER -> [out |-> BigEndian(Len(s), 2) \o EncodeUtf8(s), err |-> FALSE]

-----------------------------------------------------------------------------
(* DataInputStream (io.py 5-70).  readexactly(n) raises on n < 0 and     *)
(* waits while fewer than n bytes are buffered.                          *)

ReadExactly(bs, p, n) ==
  CASE n < 0                -> Error
    [] p + n - 1 > Len(bs)  -> Short
    [] OTHER                -> Ok(SubSeq(bs, p, p + n - 1), p + n)

\* Apply F to the bytes of a successful readexactly(n).
ReadAs(bs, p, n, F(_)) ==
  LET r == ReadExactly(bs, p, n) IN
  IF r.st = "ok" THEN Ok(F(r.val), r.pos) ELSE r

\* struct.unpack('?'): any nonzero byte is True.
read_boolean(bs, p)        == ReadAs(bs, p, 1, LAMBDA b : b[1] # 0)
read_byte(bs, p)           == ReadAs(bs, p, 1, Signed)
read_unsigned_byte(bs, p)  == ReadAs(bs, p, 1, Unsigned)
read_short(bs, p)          == ReadAs(bs, p, 2, Signed)
read_unsigned_short(bs, p) == ReadAs(bs, p, 2, Unsigned)
read_int(bs, p)            == ReadAs(bs, p, 4, Signed)
read_long(bs, p)           == ReadAs(bs, p, 8, Signed)
\* chr(unpack('>H')): a one-character string.
read_char(bs, p)           == ReadAs(bs, p, 2, LAMBDA b : <<Unsigned(b)>>)
read_fully(bs, p, n)       == ReadExactly(bs, p, n)

\* read_utf: a 2-byte byte count, that many bytes, then UTF-8 decoding.
read_utf(bs, p) ==
  LET n == read_unsigned_short(bs, p) IN
  IF n.st # "ok" THEN n
  ELSE LET b == ReadExactly(bs, n.pos, n.val) IN
       IF b.st # "ok" THEN b
       ELSE LET d == DecodeUtf8(b.val) IN
            IF d.st = "ok" THEN Ok(d.val, b.pos) ELSE Error

=============================================================================
