------------------------------ MODULE MCOutbound ----------------------------
(* Model-checking instance of Outbound.                                    *)
EXTENDS Outbound

\* Three application tasks making outbound calls.
MCCallers == {"p1", "p2", "p3"}

=============================================================================
