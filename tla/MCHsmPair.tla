------------------------------ MODULE MCHsmPair ------------------------------
(* HsmPair with two slots: device b may write the file fb, of group 1, and  *)
(* nobody the file fc, of group 3.  Group numbers have two bits, so the     *)
(* number 5 is group 1, and a device has room for two permissions.          *)
EXTENDS HsmPair

CONSTANTS a, b, fb, fc

MCGroupOf == [f \in File |-> IF f = fb THEN 1 ELSE 3]
MCPermsOf == [h \in Hsm |->
  IF h = a THEN <<Deserialize(3, <<"R", "-", "C">>)>>
           ELSE <<Deserialize(2, <<"R", "W", "C">>), Deserialize(5, <<"-", "W", "-">>)>>]
=============================================================================
