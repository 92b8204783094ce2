------------------------------- MODULE MCWire -------------------------------
(* Model-checking instances of Wire.                                       *)
EXTENDS Wire

\* Strings of ASCII characters: "", "L" and "LS".
AsciiStrs == {<<>>, <<76>>, <<76, 83>>}

\* Payloads: b"" and b"{}".
MCPayloads == {<<>>, <<123, 125>>}

\* U+00E9 (2 UTF-8 bytes), and "L" then U+20AC (1 + 3 UTF-8 bytes).
MultibyteStrs == {<<233>>, <<76, 8364>>}

\* "L" and a string longer than 65535 characters.
WithHugeStrs == {<<76>>, Huge}
\* b"{}" and a payload of 2^31 bytes or more.
WithHugePayloads == {<<123, 125>>, HugeData}

=============================================================================
