------------------------------ MODULE MCStream ------------------------------
(* Stream for TLC: one page with two connections, one of which may be on    *)
(* its way out, and one fault that comes and goes.                          *)
EXTENDS Stream

CONSTANTS k1, k2, none
=============================================================================
