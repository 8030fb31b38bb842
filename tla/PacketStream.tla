---------------------------- MODULE PacketStream ----------------------------
(***************************************************************************)
(* What a client sees of the packets sent to it: the bytes of the packets  *)
(* in the order in which they were sent, nothing missing in between,       *)
(* nothing twice.  The stream may end anywhere, also within a packet.      *)
(***************************************************************************)
EXTENDS SequencesExt

CONSTANTS Packet, SizeOf

VARIABLES sent,     \* the packets in the order in which they were sent
          wire      \* the bytes that were written, as the packets they belong to

Bytes(s) == FlattenSeq([i \in DOMAIN s |-> [j \in 1..SizeOf[s[i]] |-> s[i]]])

Init == sent = <<>> /\ wire = <<>>

Send == /\ \E x \in Packet : sent' = Append(sent, x)
        /\ UNCHANGED wire

Write == /\ IsPrefix(wire, wire') /\ IsPrefix(wire', Bytes(sent))
         /\ UNCHANGED sent

Spec == Init /\ [][Send \/ Write]_<<sent, wire>>
=============================================================================
