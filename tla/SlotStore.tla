------------------------------ MODULE SlotStore ------------------------------
(***************************************************************************)
(* What the filesystem promises its callers, without flash, pages or FAT:  *)
(* a table of slots, one write at a time.                                  *)
(*                                                                         *)
(*  - a write that finishes replaces exactly the slot it names;            *)
(*  - a reset while no write is running changes nothing;                   *)
(*  - a reset that cuts a write leaves the written slot as it was, empty,  *)
(*    damaged, or with a whole file under the UUID of the write; it may    *)
(*    lose other slots, but a lost slot is empty: it never comes back      *)
(*    holding anything but what was stored in it;                          *)
(*  - an object that is too long for a slot leaves a damaged slot, and may *)
(*    damage what other slots hold, but adds nothing to them.              *)
(***************************************************************************)
CONSTANTS
  Slot,     \* the slots of the store
  File,     \* the file objects that are written
  Fits,     \* those that are not too long for a slot
  Uuid,     \* the UUIDs they are written under
  Nothing,  \* a slot that holds no readable file
  Damaged   \* a slot whose content is not one stored file

VARIABLES
  store,    \* what each slot holds
  busy      \* the write in progress as [slot, what, was], or Nothing

vars == <<store, busy>>

Object == [file : File, uuid : Uuid]
Stored == [file : Fits, uuid : Uuid]

Init ==
  /\ store = [s \in Slot |-> Nothing]
  /\ busy = Nothing

(* A write starts: from here to its end the slot it names is undetermined. *)
Begin(s, x) ==
  /\ busy = Nothing
  /\ busy' = [slot |-> s, what |-> x, was |-> store[s]]
  /\ store' = [store EXCEPT ![s] = Damaged]

(* The sets of files that may be damaged by the running write.             *)
MayDamage ==
  IF busy.what \in Stored THEN {{}}
                          ELSE SUBSET {s \in Slot : store[s] \in Stored}

(* The write returns success, or ends the session with its fault.          *)
Finish ==
  /\ busy # Nothing
  /\ busy' = Nothing
  /\ \E spoilt \in MayDamage :
       store' = [s \in Slot |->
                   IF s = busy.slot
                     THEN IF busy.what \in Stored THEN busy.what ELSE Damaged
                   ELSE IF s \in spoilt THEN Damaged
                   ELSE store[s]]

(* What a write that is cut may leave in its slot.                         *)
Left ==
  {busy.was, Nothing, Damaged} \cup [file : Fits, uuid : {busy.what.uuid}]

(* A reset cuts the write: the slots in lost are emptied, every other slot *)
(* keeps what it held, unless the object was too long.                     *)
Cut ==
  /\ busy # Nothing
  /\ busy' = Nothing
  /\ \E lost \in SUBSET Slot, spoilt \in MayDamage, left \in Left :
       store' = [s \in Slot |-> IF s = busy.slot THEN left
                                ELSE IF s \in lost THEN Nothing
                                ELSE IF s \in spoilt THEN Damaged
                                ELSE store[s]]

Next ==
  \/ \E s \in Slot, x \in Object : Begin(s, x)
  \/ Finish
  \/ Cut

Spec == Init /\ [][Next]_vars
=============================================================================
