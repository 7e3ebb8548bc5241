---------------------------- MODULE ConnectionMC ----------------------------
(* Connection for TLC: two acceptors, a client that is accepted and one with  *)
(* a wrong password.                                                          *)
EXTENDS Connection

CONSTANTS v4, v6, c1, c2

MCClients   == {c1, c2}
MCAcceptors == {v4, v6}
MCLogin     == c1 :> Basic(<<97>>, <<98>>) @@ c2 :> Basic(<<97>>, <<99>>)
MCAccepted  == {Basic(<<97>>, <<98>>)}
MCText      == BoundedSeq({Colon, 97, 255}, 4)
=============================================================================
