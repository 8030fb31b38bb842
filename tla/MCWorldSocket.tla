---------------------------- MODULE MCWorldSocket ----------------------------
(***************************************************************************)
(* One connection, with packets of one byte, of a buffer's size and of     *)
(* more than a buffer.                                                     *)
(***************************************************************************)
EXTENDS WorldSocket

CONSTANTS p1, p2, p3, w1, w2, net

MCPacket == {p1, p2, p3}
MCSizeOf == (p1 :> 1) @@ (p2 :> 2) @@ (p3 :> 3)
=============================================================================
