----------------------------- MODULE Permissions -----------------------------
(***************************************************************************)
(* What a device may do with the files of a group: the permissions are     *)
(* given as text when the firmware is built, checked against the groups of *)
(* the deployment (gen_secrets.py), written to secrets.h as a table        *)
(* (secrets_to_c_header.py), and looked up by validate_permission          *)
(* (security.c).  Only functions: the table never changes on a device.     *)
(***************************************************************************)
EXTENDS Naturals, Sequences

CONSTANTS
  MaxPerms,  \* MAX_PERMS, 8 in the script and in the firmware
  GroupMod   \* group numbers on the device are taken modulo 2^16

ASSUME PermissionsAssumption == MaxPerms \in Nat /\ GroupMod \in Nat \ {0}

GroupId == 0 .. GroupMod - 1
Kind == {"read", "write", "receive"}
Permission ==
  [group_id : Nat, read : BOOLEAN, write : BOOLEAN, receive : BOOLEAN]

(* The groups a deployment is generated for.                               *)
DeploymentGroups(numbers) == {g % GroupMod : g \in numbers}

(* "1234=RWC": a number, and a letter at the place of each kind.           *)
Deserialize(number, letters) ==
  [group_id |-> number,
   read     |-> letters[1] = "R",
   write    |-> letters[2] = "W",
   receive  |-> letters[3] = "C"]

(* The group an entry is about, on the device.                             *)
GroupOn(p) == p.group_id % GroupMod

(* _validate_permissions_against_groups lets the list pass.                *)
Validated(list, valid) ==
  /\ \A i, j \in DOMAIN list : GroupOn(list[i]) = GroupOn(list[j]) => i = j
  /\ \A i \in DOMAIN list : GroupOn(list[i]) \in valid
  /\ Len(list) <= MaxPerms

Unused == [group_id |-> 0, read |-> FALSE, write |-> FALSE, receive |-> FALSE]

(* global_permissions: the list, in a uint16_t each, padded.               *)
GlobalPermissions(list) ==
  [i \in 1 .. MaxPerms |->
     IF i \in DOMAIN list THEN [list[i] EXCEPT !.group_id = GroupOn(list[i])]
                          ELSE Unused]

(* validate_permission: the first entry of the group decides; an entry of  *)
(* group 0 is an unused one.                                               *)
ValidatePermission(table, group, kind) ==
  LET hits == {i \in 1 .. MaxPerms : /\ table[i].group_id # 0
                                     /\ table[i].group_id = group}
  IN \E i \in hits : (\A j \in hits : i <= j) /\ table[i][kind]

(* What the list says, whatever the order of its entries.                  *)
Grants(list, group, kind) ==
  \E i \in DOMAIN list : GroupOn(list[i]) = group /\ list[i][kind]
=============================================================================
