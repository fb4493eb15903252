------------------------------ MODULE MCUplink ------------------------------
(* A device that may send its packets out of sequence, one of them with a  *)
(* deadline, and control packets larger than a batch.                      *)
EXTENDS Uplink

CONSTANT d1

MCPacket(d, seq, size, control, priority, inferred, ttl) ==
    [device |-> d, sequence |-> seq, size |-> size, control |-> control,
     priority |-> priority, inferred |-> inferred, ttl |-> ttl]

MCPackets == {MCPacket(d1, 1, 1, FALSE, 1, 1, 0),
              MCPacket(d1, 2, 1, FALSE, 0, 1, 2),
              MCPacket(d1, 2, 5, TRUE, 1, 2, 0)}
=============================================================================
