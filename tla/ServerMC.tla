------------------------------ MODULE ServerMC ------------------------------
(* Server for TLC: two acceptors; one client is not accepted, one may leave.  *)
EXTENDS Server

CONSTANTS v4, v6, c1, c2, c3

MCAcceptors == {v4, v6}
MCConns     == {c1, c2, c3}
MCTrusted   == {c1, c3}
MCBroken    == {c3}
=============================================================================
