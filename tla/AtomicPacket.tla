----------------------------- MODULE AtomicPacket -----------------------------
(***************************************************************************)
(* What write_packet and read_packet promise the two ends of a UART line:  *)
(*                                                                         *)
(*  - a packet is handed over whole or not at all, at most once per write, *)
(*    and the writer is told which;                                        *)
(*  - a write is only refused when both ends write at once, and then the   *)
(*    other end's write cannot succeed either.                             *)
(***************************************************************************)
EXTENDS PacketLine

CONSTANT
  Packet    \* the packets an end can write

VARIABLES
  result,   \* what the last write of each end returned
  took      \* the packet the last successful read of each end returned

vars == <<offer, state, result, took>>

Init ==
  /\ Idle
  /\ result = [e \in End |-> None]
  /\ took = [e \in End |-> None]

Returns(e, r) == result' = [result EXCEPT ![e] = r] /\ UNCHANGED took

Next ==
  \/ \E e \in End, p \in Packet : Offer(e, p) /\ Returns(e, None)
  \/ \E w, r \in End :
       \/ /\ Take(w, r)
          /\ took' = [took EXCEPT ![r] = offer[w]]
          /\ UNCHANGED result
       \/ PassOver(w, r) /\ UNCHANGED <<result, took>>
  \/ \E e \in End :
       \/ Confirm(e) /\ Returns(e, "ok")
       \/ Refuse(e) /\ Returns(e, "noAck")
  \/ \E e, w \in End : Spoil(e, w) /\ UNCHANGED <<offer, result, took>>

Spec == Init /\ [][Next]_vars
=============================================================================
