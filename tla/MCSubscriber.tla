---------------------------- MODULE MCSubscriber ----------------------------
(* Model-checking instance of Subscriber: frames of every kind, and every *)
(* kind of console line.                                                   *)
EXTENDS Subscriber

\* Every frame the server sends is one of the four kinds.
MCKinds == {"data", "ctrl", "junk", "bad"}

\* Every line the user may type, and the end of stdin.
MCLines == {"", "invalid", "request", "eof"}

=============================================================================
