---------------------------- MODULE MCConnection ----------------------------
(* Model-checking instance of Connection: two frames, two calling tasks.  *)
EXTENDS Connection

\* Two application tasks making outbound calls.
MCCallers == {"p1", "p2"}

=============================================================================
