----------------------------- MODULE AccessProofs -----------------------------
(***************************************************************************)
(* The build script and the firmware agree: on the permissions they write  *)
(* and look up, and on the PIN they store and compare.                     *)
(***************************************************************************)
EXTENDS Permissions, PinCheck, TLAPS

USE PermissionsAssumption

(* A table built from a list that passed the script decides as the list    *)
(* says, for every group but 0: validate_permission takes the first entry  *)
(* of a group (security.c:294), which is its only one, and skips group 0   *)
(* (security.c:280), which the script lets pass.                           *)
THEOREM TableDecidesAsList ==
  ASSUME NEW list \in Seq(Permission), NEW valid, Validated(list, valid),
         NEW group \in GroupId, NEW kind \in Kind
  PROVE  ValidatePermission(GlobalPermissions(list), group, kind)
           <=> group # 0 /\ Grants(list, group, kind)
<1> DEFINE table == GlobalPermissions(list)
           hits == {i \in 1 .. MaxPerms : /\ table[i].group_id # 0
                                          /\ table[i].group_id = group}
<1>1. DOMAIN list = 1 .. Len(list) /\ Len(list) \in Nat /\ Len(list) <= MaxPerms
    BY DEF Validated
<1>2. \A i \in DOMAIN list : list[i] \in Permission /\ i \in 1 .. MaxPerms
    BY <1>1
<1>3. \A i \in DOMAIN list :
        table[i].group_id = GroupOn(list[i]) /\ table[i][kind] = list[i][kind]
    BY <1>2 DEF GlobalPermissions, Permission, Kind
<1>4. \A i \in (1 .. MaxPerms) \ DOMAIN list : table[i].group_id = 0
    BY DEF GlobalPermissions, Unused
<1>5. \A i \in hits : i \in DOMAIN list /\ GroupOn(list[i]) = group /\ group # 0
    BY <1>3, <1>4
<1>6. \A i, j \in hits : i = j
    BY <1>5 DEF Validated
<1>7. ValidatePermission(table, group, kind) <=> \E i \in hits : table[i][kind]
  <2>1. ValidatePermission(table, group, kind)
          <=> \E i \in hits : (\A j \in hits : i <= j) /\ table[i][kind]
      BY DEF ValidatePermission
  <2>2. \A i, j \in hits : i <= j
      BY <1>6
  <2> QED
      BY <2>1, <2>2
<1>8. ASSUME group # 0, NEW i \in DOMAIN list, GroupOn(list[i]) = group
      PROVE  i \in hits
    BY <1>2, <1>3, <1>8
<1> QED
    BY <1>3, <1>5, <1>7, <1>8 DEF Grants

(* A device has no permission for a group that is not one of its           *)
(* deployment's ("Ensure build-time PERMISSIONS only references            *)
(* deployment-supported groups", secrets_to_c_header.py:180).              *)
THEOREM DeploymentOnly ==
  ASSUME NEW list \in Seq(Permission), NEW valid, Validated(list, valid),
         NEW group \in GroupId, NEW kind \in Kind,
         ValidatePermission(GlobalPermissions(list), group, kind)
  PROVE  group \in valid
<1>1. Grants(list, group, kind)
    BY TableDecidesAsList
<1> QED
    BY <1>1 DEF Grants, Validated

(* The order of the entries in the text does not matter: two lists that    *)
(* pass and hold the same entries make devices that decide alike, though   *)
(* the table is searched in order (security.c:278).                        *)
THEOREM OrderFree ==
  ASSUME NEW list \in Seq(Permission), NEW other \in Seq(Permission),
         NEW valid, Validated(list, valid), Validated(other, valid),
         \A i \in DOMAIN list : \E j \in DOMAIN other : other[j] = list[i],
         \A j \in DOMAIN other : \E i \in DOMAIN list : list[i] = other[j],
         NEW group \in GroupId, NEW kind \in Kind
  PROVE  ValidatePermission(GlobalPermissions(list), group, kind)
           <=> ValidatePermission(GlobalPermissions(other), group, kind)
<1>1. Grants(list, group, kind) <=> Grants(other, group, kind)
    BY DEF Grants
<1> QED
    BY <1>1, TableDecidesAsList

-----------------------------------------------------------------------------
(* harden_decision changes no decision.                                    *)
LEMMA HardenKeeps ==
  ASSUME NEW ok \in {0, 1} PROVE HardenDecision(ok) = ok
<1>1. CASE ok = 0
    BY <1>1 DEF HardenDecision, Xor, And, Bit
<1>2. CASE ok = 1
    BY <1>2 DEF HardenDecision, Xor, And, Bit
<1> QED
    BY <1>1, <1>2

(* When a tag cannot be computed the answer is no (security.c:257).        *)
THEOREM FailsClosed ==
  ASSUME NEW pin, NEW tag, NEW gmac, NEW done1 \in BOOLEAN,
         NEW done2 \in BOOLEAN, ~ (done1 /\ done2)
  PROVE  ~ CheckPin(pin, tag, gmac, done1, done2)
<1> DEFINE ok1 == Bit(done1 /\ VerifierTag(PinNorm(pin), gmac) = tag)
           ok2 == Bit(done2 /\ VerifierTag(PinNorm(pin), gmac) = tag)
<1>1. ok1 \in {0, 1} /\ ok2 \in {0, 1} /\ (ok1 = 0 \/ ok2 = 0)
    BY DEF Bit
<1>2. And(ok1, ok2) = 0
    BY <1>1 DEF And
<1> QED
    BY <1>2, HardenKeeps DEF CheckPin

(* Where no two texts have the same tag, check_pin accepts a PIN if and    *)
(* only if it is the one the device was built with, upper or lower case:   *)
(* the script folds every letter before it checks, the firmware folds A to *)
(* F after (secrets_to_c_header.py:117, security.c:235).                   *)
THEOREM PinExact ==
  ASSUME NEW gmac, \A s, t \in Text : gmac[s] = gmac[t] => s = t,
         NEW built \in Text, ValidHsmPin(built), NEW pin \in Text
  PROVE  CheckPin(pin, HsmPinTag(built, gmac), gmac, TRUE, TRUE)
           <=> SameButCase(pin, built)
<1> DEFINE same == VerifierTag(PinNorm(pin), gmac) = HsmPinTag(built, gmac)
<1>1. CheckPin(pin, HsmPinTag(built, gmac), gmac, TRUE, TRUE)
        <=> IsHex(pin) /\ same
  <2>1. And(Bit(same), Bit(same)) = Bit(same) /\ Bit(same) \in {0, 1}
      BY DEF And, Bit
  <2>2. HardenDecision(And(Bit(same), Bit(same))) # 0 <=> same
      BY <2>1, HardenKeeps DEF Bit
  <2> QED
      BY <2>2 DEF CheckPin
<1>2. \A i \in 1 .. PinLength : built[i] \in Digits \cup LowerAF \cup UpperAF
  <2> SUFFICES ASSUME NEW i \in 1 .. PinLength
               PROVE  built[i] \in Digits \cup LowerAF \cup UpperAF
      OBVIOUS
  <2>1. built[i] \in Code
      BY DEF Text
  <2>2. (IF built[i] \in UpperAZ THEN built[i] + 32 ELSE built[i])
          \in Digits \cup LowerAF
      BY DEF ValidHsmPin, BuildLower
  <2> QED
      BY <2>1, <2>2 DEF Code, Digits, LowerAF, UpperAZ, UpperAF
<1>3. BuildLower(built) = PinNorm(built)
    BY <1>2 DEF BuildLower, PinNorm, Digits, LowerAF, UpperAZ, UpperAF
<1>4. ASSUME NEW t \in Text PROVE PinNorm(t) \in Text
  <2>1. ASSUME NEW i \in 1 .. PinLength
        PROVE  (IF t[i] \in UpperAF THEN t[i] + 32 ELSE t[i]) \in Code
    <3>1. t[i] \in Code
        BY DEF Text
    <3> QED
        BY <3>1 DEF Code, UpperAF
  <2> QED
      BY <2>1 DEF PinNorm, Text
<1>5. same <=> PinNorm(pin) = PinNorm(built)
    BY <1>3, <1>4 DEF HsmPinTag, VerifierTag
<1>6. PinNorm(pin) = PinNorm(built)
        <=> \A i \in 1 .. PinLength : PinNorm(pin)[i] = PinNorm(built)[i]
    BY DEF PinNorm
<1>7. ASSUME NEW i \in 1 .. PinLength, pin[i] \in Digits \cup LowerAF \cup UpperAF
      PROVE  PinNorm(pin)[i] = PinNorm(built)[i]
               <=> \/ pin[i] = built[i]
                   \/ pin[i] \in UpperAF /\ built[i] = pin[i] + 32
                   \/ built[i] \in UpperAF /\ pin[i] = built[i] + 32
    BY <1>2, <1>7 DEF PinNorm, Digits, LowerAF, UpperAF
<1>8. SameButCase(pin, built) => IsHex(pin)
  <2> SUFFICES ASSUME SameButCase(pin, built), NEW i \in 1 .. PinLength
               PROVE  pin[i] \in Digits \cup LowerAF \cup UpperAF
      BY DEF IsHex
  <2>1. pin[i] \in Code
      BY DEF Text
  <2>2. \/ pin[i] = built[i]
        \/ pin[i] \in UpperAF /\ built[i] = pin[i] + 32
        \/ built[i] \in UpperAF /\ pin[i] = built[i] + 32
      BY DEF SameButCase
  <2> QED
      BY <1>2, <2>1, <2>2 DEF Code, Digits, LowerAF, UpperAF
<1> QED
    BY <1>1, <1>5, <1>6, <1>7, <1>8 DEF SameButCase, IsHex
=============================================================================
