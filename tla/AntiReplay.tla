------------------------------ MODULE AntiReplay ------------------------------
(***************************************************************************)
(* security.c: the two tables a receiver keeps against replays, the nonce  *)
(* cache and the replay counters.  They have nothing in common but the     *)
(* reset, which clears both.                                               *)
(***************************************************************************)
EXTENDS NonceCache, ReplayCounter

TablesInit == Init /\ NonceInit

TablesNext ==
  \/ \E p \in Pair : NonceAccept(p) /\ UNCHANGED vars
  \/ NextLocal /\ UNCHANGED nonceVars
  \/ \E s \in Sender, c \in Ctr : ReplayCtrAccept(s, c) /\ UNCHANGED nonceVars
  \/ Reset /\ NonceReset

TablesSpec == TablesInit /\ [][TablesNext]_<<vars, nonceVars>>
=============================================================================
