-------------------------- MODULE TamperLatchProofs --------------------------
(***************************************************************************)
(* Proofs about TamperLatch, whatever the scratchpad starts with and       *)
(* whatever it holds after the backup supply is lost.                      *)
(***************************************************************************)
EXTENDS TamperLatch, TLAPS

(* The bytes of a record, and that a trip record is readable as one.       *)
LEMMA Records ==
  /\ \A flag \in {CLEAR, TRIPPED} : Image(flag) \in [Index -> Byte]
  /\ Valid(Image(TRIPPED)) /\ Image(TRIPPED)[2] = TRIPPED
  /\ \A r \in [Index -> Byte] :
       (\A i \in Index : r[i] = Image(TRIPPED)[i]) => r = Image(TRIPPED)
<1>1. \A flag \in {CLEAR, TRIPPED} : Image(flag) \in [Index -> Byte]
  BY SMT DEF Image, Index, Byte, CLEAR, TRIPPED, MAGIC
<1>2. Valid(Image(TRIPPED)) /\ Image(TRIPPED)[2] = TRIPPED
  BY SMT DEF Image, Valid, CLEAR, TRIPPED, MAGIC
<1>3. \A r \in [Index -> Byte] :
        (\A i \in Index : r[i] = Image(TRIPPED)[i]) => r = Image(TRIPPED)
  <2>1. Image(TRIPPED) \in [Index -> Byte]
    BY <1>1
  <2> QED
    BY <2>1
<1> QED
  BY <1>1, <1>2, <1>3

(* A complete trip record passes for tripped.                              *)
LEMMA TripRecordTrips ==
  rec = Image(TRIPPED) => Valid(rec) /\ IsTripped
  BY Records DEF IsTripped

LEMMA InitInv == Init => IInv
<1>1. 1 \in Index
  BY SMT DEF Index
<1> QED
  BY <1>1, WordAssumption DEF Init, IInv, TypeOK, TripKept, TripUnderway

LEMMA NextInv == IInv /\ [Next]_vars => IInv'
<1> SUFFICES ASSUME IInv, [Next]_vars
             PROVE  IInv'
  OBVIOUS
<1> USE DEF IInv
<1>1. ASSUME NEW from, NEW to, MainAt(from, to),
             UNCHANGED <<rec, nmi, nmiAt, latched, torn>>,
             mainAt' \in Index,
             from \notin {"reset", "latchInit", "bootCheck", "locked"}
               \/ to \in {"reset", "latchInit", "bootCheck", "locked"}
               \/ ~ latched,
             to \in {"reset", "latchInit", "clear", "bootCheck",
                    "peripherals", "loopCheck", "readPacket",
                    "commandCheck", "handle", "locked", "halted"}
      PROVE  IInv'
  <2>1. TypeOK'
    BY <1>1 DEF TypeOK, MainAt
  <2>2. TripKept'
    BY <1>1 DEF TripKept, MainAt
  <2>3. TripUnderway'
    BY <1>1 DEF TripUnderway
  <2> QED
    BY <2>1, <2>2, <2>3
<1>2. CASE ArmBrownout
  BY <1>2, <1>1 DEF ArmBrownout, Go, TypeOK
<1>3. CASE InitLatch
  <2>1. latched => Valid(rec)
    BY TripRecordTrips DEF TripKept
  <2>2. 1 \in Index
    BY SMT DEF Index
  <2> QED
    BY <1>3, <1>1, <2>1, <2>2 DEF InitLatch
<1>4. CASE ClearByte
  <2>1. ~ latched
    BY <1>4 DEF ClearByte, MainAt, TripKept
  <2>2. mainAt \in Index /\ (mainAt # 4 => mainAt + 1 \in Index) /\ 1 \in Index
    BY SMT DEF TypeOK, Index
  <2>3. Image(CLEAR)[mainAt] \in Byte
    BY <2>2, Records
  <2>4. TypeOK'
    BY <1>4, <2>2, <2>3 DEF ClearByte, MainAt, TypeOK
  <2>5. TripKept' /\ TripUnderway'
    BY <1>4, <2>1 DEF ClearByte, MainAt, TripKept, TripUnderway
  <2> QED
    BY <2>4, <2>5
<1>5. CASE BootCheck
  <2>1. latched => IsTripped
    BY TripRecordTrips DEF TripKept
  <2> QED
    BY <1>5, <1>1, <2>1 DEF BootCheck, Check, TypeOK
<1>6. CASE Peripherals \/ LoopCheck \/ ReadPacket \/ CommandCheck \/ Handle
  BY <1>6, <1>1 DEF Peripherals, LoopCheck, ReadPacket, CommandCheck, Handle,
                    Go, Check, TypeOK
<1>7. CASE EnterNMI
  <2>1. TypeOK'
    BY <1>7, SMT DEF EnterNMI, TypeOK, Index
  <2>2. TripKept'
    BY <1>7 DEF EnterNMI, TripKept
  <2>3. TripUnderway'
    BY <1>7, SMT DEF EnterNMI, TripUnderway
  <2> QED
    BY <2>1, <2>2, <2>3
<1>8. CASE TripByte
  <2>1. /\ nmiAt \in Index /\ 1 \in Index
        /\ nmiAt # 4 => nmiAt + 1 \in Index
        /\ \A i \in 1 .. nmiAt : i \in Index
        /\ \A i \in 1 .. nmiAt : i \in 1 .. nmiAt - 1 \/ i = nmiAt
        /\ nmiAt = 4 => Index = 1 .. nmiAt
    BY SMT DEF TypeOK, Index
  <2>2. Image(TRIPPED) \in [Index -> Byte]
    BY Records
  <2>3. rec' \in [Index -> Byte]
    BY <1>8, <2>1, <2>2 DEF TripByte, TypeOK
  <2>4. TypeOK'
    BY <1>8, <2>1, <2>3 DEF TripByte, TypeOK
  <2>5. \A i \in 1 .. nmiAt : rec'[i] = Image(TRIPPED)[i]
    BY <1>8, <2>1 DEF TripByte, TripUnderway, TypeOK
  <2>6. TripUnderway'
    <3>1. CASE nmiAt = 4
      BY <1>8, <3>1 DEF TripByte, TripUnderway
    <3>2. CASE nmiAt # 4
      <4>1. nmiAt' - 1 = nmiAt
        <5>1. nmiAt' = nmiAt + 1
          BY <1>8, <3>2 DEF TripByte
        <5> QED
          BY <2>1, <5>1, SMT DEF Index
      <4> QED
        BY <2>5, <4>1 DEF TripUnderway, Image
    <3> QED
      BY <3>1, <3>2
  <2>7. TripKept'
    <3>1. CASE latched
      <4>1. rec' = rec
        BY <1>8, <2>1, <2>2, <3>1 DEF TripByte, TripKept
      <4> QED
        BY <1>8, <3>1, <4>1 DEF TripByte, TripKept, Image
    <3>2. CASE ~ latched /\ nmiAt = 4
      <4>1. rec' = Image(TRIPPED)
        BY <2>1, <2>3, <2>5, <3>2, Records
      <4> QED
        BY <1>8, <3>2, <4>1 DEF TripByte, TripKept, Image
    <3>3. CASE ~ latched /\ nmiAt # 4
      BY <1>8, <3>3 DEF TripByte, TripKept
    <3> QED
      BY <3>1, <3>2, <3>3
  <2> QED
    BY <2>4, <2>6, <2>7
<1>9. CASE Reset
  BY <1>9, SMT DEF Reset, TypeOK, TripKept, TripUnderway, Index, Image
<1>10. CASE BackupLost
  <2>1. 1 \in Index
    BY SMT DEF Index
  <2> QED
    BY <1>10, <2>1, WordAssumption
       DEF BackupLost, TypeOK, TripKept, TripUnderway
<1>11. CASE UNCHANGED vars
  BY <1>11 DEF vars, TypeOK, TripKept, TripUnderway, Image
<1> QED
  BY <1>2, <1>3, <1>4, <1>5, <1>6, <1>7, <1>8, <1>9, <1>10, <1>11
     DEF Next, Main

(* No trip, reset or loss of the backup supply, wherever it comes, leaves  *)
(* the record, the NMI or the main thread outside what they can be.        *)
THEOREM Types == Spec => []TypeOK
<1>1. IInv => TypeOK
  BY DEF IInv
<1> QED
  BY <1>1, InitInv, NextInv, PTL DEF Spec

(* A complete trip record survives every boot, interrupted or not, and the *)
(* main thread never gets past the boot check with it.                     *)
THEOREM TripStays == Spec => []TripKept
<1>1. IInv => TripKept
  BY DEF IInv
<1> QED
  BY <1>1, InitInv, NextInv, PTL DEF Spec

(* Once a trip record is complete no packet is read and no command is      *)
(* started or carried on.                                                  *)
THEOREM NoCommand == Spec => NoCommandAfterTrip
<1>1. IInv /\ [Next]_vars =>
        [latched => ~ (ReadPacket \/ CommandCheck \/ Handle)]_vars
  BY DEF IInv, TripKept, ReadPacket, CommandCheck, Handle, Go, Check, MainAt
<1> QED
  BY <1>1, InitInv, NextInv, PTL DEF Spec, NoCommandAfterTrip
=============================================================================
