----------------------------- MODULE MCPacketLink -----------------------------
(* PacketLink with blocks of two bytes and packets of no byte, of exactly  *)
(* one block, and of two blocks and a byte.                                *)
EXTENDS PacketLink

CONSTANTS empty, block, long

MCSize == [p \in Packet |-> IF p = empty THEN 0 ELSE IF p = block THEN 2 ELSE 5]
=============================================================================
