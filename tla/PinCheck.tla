------------------------------- MODULE PinCheck -------------------------------
(***************************************************************************)
(* The PIN of a device.  The build script takes it as text and emits the   *)
(* GMAC tag of its lower-case form (secrets_to_c_header.py); check_pin     *)
(* (security.c) brings what the host sent to lower case and compares tags. *)
(* Two programs normalise the same text: they have to agree.  Characters   *)
(* are their codes; gmac is the tag of each text under the device's key.   *)
(***************************************************************************)
EXTENDS Naturals

PinLength == 6
Code == 0 .. 255
Text == [1 .. PinLength -> Code]

Digits == 48 .. 57      \* "0" to "9"
UpperAF == 65 .. 70     \* "A" to "F"
LowerAF == 97 .. 102    \* "a" to "f"
UpperAZ == 65 .. 90     \* "A" to "Z"

(* _validate_hsm_pin: lower case first, then hex digits only.              *)
BuildLower(pin) ==
  [i \in 1 .. PinLength |-> IF pin[i] \in UpperAZ THEN pin[i] + 32 ELSE pin[i]]
ValidHsmPin(pin) ==
  \A i \in 1 .. PinLength : BuildLower(pin)[i] \in Digits \cup LowerAF

(* The GMAC of "PINv1" and the text, computed by both programs.            *)
VerifierTag(text, gmac) == gmac[text]

(* HSM_PIN_TAG, as secrets.h holds it.                                     *)
HsmPinTag(pin, gmac) == VerifierTag(BuildLower(pin), gmac)

(* check_pin: hex digits only, then lower case.                            *)
IsHex(pin) ==
  \A i \in 1 .. PinLength : pin[i] \in Digits \cup LowerAF \cup UpperAF
PinNorm(pin) ==
  [i \in 1 .. PinLength |-> IF pin[i] \in UpperAF THEN pin[i] + 32 ELSE pin[i]]

(* Bits.                                                                   *)
Bit(b) == IF b THEN 1 ELSE 0
Xor(x, y) == (x + y) % 2
And(x, y) == x * y

(* The decision is copied, inverted, and returned when they are consistent. *)
HardenDecision(ok) ==
  LET inv == Xor(ok, 1)
  IN And(And(Bit(ok = ok), Xor(ok, inv)), ok)

(* The tag is computed twice, either computation may fail (done1, done2),  *)
(* and both have to match.                                                 *)
CheckPin(pin, tag, gmac, done1, done2) ==
  /\ IsHex(pin)
  /\ LET ok1 == Bit(done1 /\ VerifierTag(PinNorm(pin), gmac) = tag)
         ok2 == Bit(done2 /\ VerifierTag(PinNorm(pin), gmac) = tag)
     IN HardenDecision(And(ok1, ok2)) # 0

(* The same PIN, but for the case of its letters.                          *)
SameButCase(p, q) ==
  \A i \in 1 .. PinLength :
    \/ p[i] = q[i]
    \/ p[i] \in UpperAF /\ q[i] = p[i] + 32
    \/ q[i] \in UpperAF /\ p[i] = q[i] + 32
=============================================================================
