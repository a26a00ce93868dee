---------------------------- MODULE MCTamperLatch ----------------------------
(* TamperLatch with the words that combine right and wrong values of each  *)
(* byte, readable and unreadable records among them.                       *)
EXTENDS TamperLatch, Bitwise

(* tl_checksum(magic, flag, ~flag) is 0 whatever the flag.                 *)
ASSUME ChecksumIsZero ==
  \A flag \in Byte : (((MAGIC ^^ flag) ^^ (255 - flag)) ^^ 90) = 0

MCWord ==
  {<<m, f, v, c>> : m \in {MAGIC, 0}, f \in {CLEAR, TRIPPED, 255},
                    v \in {255, 254, 0}, c \in {0, 255}}
=============================================================================
