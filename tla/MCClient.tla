------------------------------ MODULE MCClient ------------------------------
(* Model-checking instance of Client: a few frames of every kind.         *)
EXTENDS Client

\* Every frame the server sends is one of the four kinds.
MCKinds == {"data", "ctrl", "junk", "bad"}

=============================================================================
