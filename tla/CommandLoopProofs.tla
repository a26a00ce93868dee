--------------------------- MODULE CommandLoopProofs ---------------------------
(***************************************************************************)
(* IInv of CommandLoop is inductive.  A step of the TRNG or of its driver  *)
(* leaves the loop alone and a step of the loop the TRNG, but for          *)
(* CheckPin, which starts trng_generate, and the reset; so each conjunct   *)
(* is shown for the one kind of step and then for the other.               *)
(***************************************************************************)
EXTENDS CommandLoop, TLAPS

USE TrngAssumption DEF TrngCommand, Tests, Word, Opcode, PinCommands, Pin

LEMMA Initially == Init => IInv
BY DEF Init, TrngInit, IInv, TypeOK, TrngTypeOK, LoopTypeOK, OnlyOwnPin, FreshRandom, PinKnown,
   WaitKnown, TrngKnown, IsDone, IsReady

(* The conjuncts that only speak of the loop.                              *)
LEMMA LoopFrame ==
  ASSUME IInv, UNCHANGED loopVars
  PROVE  LoopTypeOK' /\ OnlyOwnPin' /\ PinKnown' /\ WaitKnown'
BY DEF IInv, TypeOK, LoopTypeOK, OnlyOwnPin, PinKnown, WaitKnown, loopVars

(* The steps of the driver.                                                *)
LEMMA DriverTypes ==
  ASSUME IInv, TrngDriver
  PROVE  TrngTypeOK'
<1> USE DEF IInv, TypeOK, TrngTypeOK, TrngDriver, hwVars, Send, ClearFlag, GetCapture
<1>1. CASE PowerOn
  BY <1>1 DEF PowerOn
<1>2. CASE TestDigital
  BY <1>2 DEF TestDigital
<1>3. CASE CheckDigital
  <2>1. CASE "TEST_DIG" \in passed
    BY <1>3, <2>1 DEF CheckDigital
  <2>2. CASE "TEST_DIG" \notin passed
    BY <1>3, <2>2 DEF CheckDigital
  <2> QED
    BY <1>3, <2>1, <2>2 DEF CheckDigital
<1>4. CASE CheckAnalog
  <2>1. CASE "TEST_ANA" \in passed
    BY <1>4, <2>1 DEF CheckAnalog
  <2>2. CASE "TEST_ANA" \notin passed
    BY <1>4, <2>2 DEF CheckAnalog
  <2> QED
    BY <1>4, <2>1, <2>2 DEF CheckAnalog
<1>5. CASE PoweredOff
  BY <1>5 DEF PoweredOff
<1>6. CASE RateSet
  BY <1>6 DEF RateSet
<1>7. CASE ReadFirst
  BY <1>7 DEF ReadFirst
<1>8. CASE Discarded
  BY <1>8 DEF Discarded
<1>9. CASE ReadWord
  BY <1>9 DEF ReadWord
<1>10. CASE Generated
  BY <1>10 DEF Generated
<1> QED
  BY <1>1, <1>2, <1>3, <1>4, <1>5, <1>6, <1>7, <1>8, <1>9, <1>10 DEF Driver

LEMMA DriverFresh ==
  ASSUME IInv, TrngDriver
  PROVE  FreshRandom'
<1> USE DEF IInv, FreshRandom, TrngKnown, TrngDriver, hwVars
<1>1. CASE PowerOn
  BY <1>1 DEF PowerOn
<1>2. CASE TestDigital
  BY <1>2 DEF TestDigital
<1>3. CASE CheckDigital
  BY <1>3 DEF CheckDigital
<1>4. CASE CheckAnalog
  BY <1>4 DEF CheckAnalog
<1>5. CASE PoweredOff
  BY <1>5 DEF PoweredOff
<1>6. CASE RateSet
  BY <1>6 DEF RateSet
<1>7. CASE ReadFirst
  BY <1>7 DEF ReadFirst
<1>8. CASE Discarded
  BY <1>8 DEF Discarded
<1>9. CASE ReadWord
  BY <1>9 DEF ReadWord
<1>10. CASE Generated
  BY <1>10 DEF Generated
<1> QED
  BY <1>1, <1>2, <1>3, <1>4, <1>5, <1>6, <1>7, <1>8, <1>9, <1>10 DEF Driver

LEMMA DriverKnown ==
  ASSUME IInv, TrngDriver
  PROVE  TrngKnown'
<1> USE DEF IInv, TypeOK, TrngTypeOK, TrngKnown, TrngDriver, loopVars, hwVars, Send,
    ClearFlag, GetCapture, IsDone, IsReady
<1>1. CASE PowerOn
  BY <1>1 DEF PowerOn
<1>2. CASE TestDigital
  BY <1>2 DEF TestDigital
<1>3. CASE CheckDigital
  BY <1>3 DEF CheckDigital
<1>4. CASE CheckAnalog
  BY <1>4 DEF CheckAnalog
<1>5. CASE PoweredOff
  BY <1>5 DEF PoweredOff
<1>6. CASE RateSet
  BY <1>6 DEF RateSet
<1>7. CASE ReadFirst
  BY <1>7 DEF ReadFirst
<1>8. CASE Discarded
  BY <1>8 DEF Discarded
<1>9. CASE ReadWord
  BY <1>9 DEF ReadWord
<1>10. CASE Generated
  BY <1>10 DEF Generated
<1> QED
  BY <1>1, <1>2, <1>3, <1>4, <1>5, <1>6, <1>7, <1>8, <1>9, <1>10 DEF Driver

(* The steps of the TRNG.                                                  *)
LEMMA HardwareKeeps ==
  ASSUME IInv, UNCHANGED loopVars, Execute \/ Capture \/ HealthFail
  PROVE  IInv'
<1>1. TrngTypeOK'
  <2> USE DEF IInv, TypeOK, TrngTypeOK
  <2>1. CASE Execute
    <3>1. CASE command \in Tests BY <2>1, <3>1 DEF Execute
    <3>2. CASE command \notin Tests BY <2>1, <3>2 DEF Execute
    <3> QED BY <3>1, <3>2
  <2>2. CASE Capture BY <2>2 DEF Capture
  <2>3. CASE HealthFail BY <2>3 DEF HealthFail
  <2> QED BY <2>1, <2>2, <2>3
<1>2. FreshRandom'
  BY DEF IInv, FreshRandom, Execute, Capture, HealthFail
<1>3. TrngKnown'
  <2> USE DEF IInv, TypeOK, TrngTypeOK, TrngKnown, loopVars, IsDone, IsReady
  <2>1. CASE Execute BY <2>1 DEF Execute
  <2>2. CASE Capture BY <2>2 DEF Capture
  <2>3. CASE HealthFail BY <2>3 DEF HealthFail
  <2> QED BY <2>1, <2>2, <2>3
<1> QED BY <1>1, <1>2, <1>3, LoopFrame DEF IInv, TypeOK

(* The steps of the loop that leave the TRNG alone.                        *)
LoopStep ==
  \/ BootTrng \/ BootTimer \/ Top \/ ComparePin \/ RefusePin \/ Handling
  \/ TimerZero \/ HostSends \/ BadPacket \/ HostTakes \/ Neighbor

LEMMA LoopTypes ==
  ASSUME IInv, LoopStep \/ CheckPin
  PROVE  TypeOK'
<1> USE DEF IInv, TypeOK, TrngTypeOK, LoopTypeOK, WaitKnown,
    trngVars, hwVars, Goto, Answer, Fault, Does, StartTimer
<1>1. CASE BootTrng
  BY <1>1 DEF BootTrng
<1>2. CASE BootTimer
  BY <1>2 DEF BootTimer
<1>3. CASE Top
  BY <1>3 DEF Top
<1>4. CASE ComparePin
  BY <1>4 DEF ComparePin
<1>5. CASE RefusePin
  BY <1>5 DEF RefusePin
<1>6. CASE Handling
  <2>1. CASE ListFiles
    BY <1>6, <2>1 DEF Handling, ListFiles, SendList, ReadFile, WriteFile,
     SendRequest, Store, StoreDamaged, Handles
  <2>2. CASE ReadFile /\ UNCHANGED did
    BY <1>6, <2>2 DEF Handling, ListFiles, SendList, ReadFile, WriteFile,
     SendRequest, Store, StoreDamaged, Handles
  <2>3. CASE ReadFile /\ Does("data")
    BY <1>6, <2>3 DEF Handling, ListFiles, SendList, ReadFile, WriteFile,
     SendRequest, Store, StoreDamaged, Handles
  <2>4. CASE WriteFile
    BY <1>6, <2>4 DEF Handling, ListFiles, SendList, ReadFile, WriteFile,
     SendRequest, Store, StoreDamaged, Handles
  <2>5. CASE SendRequest
    BY <1>6, <2>5 DEF Handling, ListFiles, SendList, ReadFile, WriteFile,
     SendRequest, Store, StoreDamaged, Handles
  <2>6. CASE Store
    BY <1>6, <2>6 DEF Handling, ListFiles, SendList, ReadFile, WriteFile,
     SendRequest, Store, StoreDamaged, Handles
  <2>7. CASE SendList
    BY <1>6, <2>7 DEF Handling, ListFiles, SendList, ReadFile, WriteFile,
     SendRequest, Store, StoreDamaged, Handles
  <2>8. CASE StoreDamaged
    <3>1. CASE Fault
      BY <1>6, <2>8, <3>1 DEF Handling, StoreDamaged
    <3>2. CASE Answer("error") \/ Answer(cmd)
      BY <1>6, <2>8, <3>2 DEF Handling, StoreDamaged
    <3> QED
      BY <2>8, <3>1, <3>2 DEF StoreDamaged
  <2> QED
    BY <1>6, <2>1, <2>2, <2>3, <2>4, <2>5, <2>6, <2>7, <2>8
       DEF Handling, ListFiles, SendList, ReadFile, WriteFile,
     SendRequest, Store, StoreDamaged, Handles
<1>7. CASE TimerZero
  BY <1>7 DEF TimerZero
<1>8. CASE HostSends
  BY <1>8 DEF HostSends, ReadCommand
<1>9. CASE BadPacket
  BY <1>9 DEF BadPacket
<1>10. CASE HostTakes
  BY <1>10 DEF HostTakes
<1>11. CASE Neighbor
  <2>1. CASE NeighborTakes
    BY <1>11, <2>1 DEF Neighbor, NeighborTakes, NeighborAnswers, NeighborAsks
  <2>2. CASE NeighborAnswers /\ UNCHANGED did
    BY <1>11, <2>2 DEF Neighbor, NeighborTakes, NeighborAnswers, NeighborAsks
  <2>3. CASE NeighborAnswers /\ Does("data")
    BY <1>11, <2>3 DEF Neighbor, NeighborTakes, NeighborAnswers, NeighborAsks
  <2>4. CASE NeighborAsks /\ UNCHANGED did
    BY <1>11, <2>4 DEF Neighbor, NeighborTakes, NeighborAnswers, NeighborAsks
  <2>5. CASE NeighborAsks /\ Does("serve")
    BY <1>11, <2>5 DEF Neighbor, NeighborTakes, NeighborAnswers, NeighborAsks
  <2> QED
    BY <1>11, <2>1, <2>2, <2>3, <2>4, <2>5 DEF Neighbor, NeighborTakes, NeighborAnswers, NeighborAsks
<1>12. CASE CheckPin
  <2>1. CASE buf = "malformed"
    BY <1>12, <2>1 DEF CheckPin
  <2>2. CASE buf # "malformed"
    BY <1>12, <2>2 DEF CheckPin
  <2> QED
    BY <1>12, <2>1, <2>2 DEF CheckPin
<1> QED
  BY <1>1, <1>2, <1>3, <1>4, <1>5, <1>6, <1>7,
     <1>8, <1>9, <1>10, <1>11, <1>12 DEF LoopStep

LEMMA LoopOwnPin ==
  ASSUME IInv, LoopStep \/ CheckPin
  PROVE  OnlyOwnPin' /\ PinKnown'
<1> USE DEF IInv, TypeOK, LoopTypeOK, OnlyOwnPin, PinKnown,
    WaitKnown, trngVars, hwVars, Goto, Answer, Fault, Does, StartTimer
<1>1. CASE BootTrng
  BY <1>1 DEF BootTrng
<1>2. CASE BootTimer
  BY <1>2 DEF BootTimer
<1>3. CASE Top
  BY <1>3 DEF Top
<1>4. CASE ComparePin
  BY <1>4 DEF ComparePin
<1>5. CASE RefusePin
  BY <1>5 DEF RefusePin
<1>6. CASE Handling
  <2>1. CASE ListFiles
    BY <1>6, <2>1 DEF Handling, ListFiles, Handles
  <2>2. CASE ReadFile /\ UNCHANGED did
    BY <1>6, <2>2 DEF Handling, ListFiles, SendList, ReadFile, WriteFile,
     SendRequest, Store, StoreDamaged, Handles
  <2>3. CASE ReadFile /\ Does("data")
    BY <1>6, <2>3 DEF Handling, ListFiles, SendList, ReadFile, WriteFile,
     SendRequest, Store, StoreDamaged, Handles
  <2>4. CASE WriteFile
    BY <1>6, <2>4 DEF Handling, ListFiles, SendList, ReadFile, WriteFile,
     SendRequest, Store, StoreDamaged, Handles
  <2>5. CASE SendRequest
    BY <1>6, <2>5 DEF Handling, ListFiles, SendList, ReadFile, WriteFile,
     SendRequest, Store, StoreDamaged, Handles
  <2>6. CASE Store
    BY <1>6, <2>6 DEF Handling, ListFiles, SendList, ReadFile, WriteFile,
     SendRequest, Store, StoreDamaged, Handles
  <2>7. CASE SendList
    BY <1>6, <2>7 DEF Handling, ListFiles, SendList, ReadFile, WriteFile,
     SendRequest, Store, StoreDamaged, Handles
  <2>8. CASE StoreDamaged
    BY <1>6, <2>8 DEF Handling, ListFiles, SendList, ReadFile, WriteFile,
     SendRequest, Store, StoreDamaged, Handles
  <2> QED
    BY <1>6, <2>1, <2>2, <2>3, <2>4, <2>5, <2>6, <2>7, <2>8
       DEF Handling, ListFiles, SendList, ReadFile, WriteFile,
     SendRequest, Store, StoreDamaged, Handles
<1>7. CASE TimerZero
  BY <1>7 DEF TimerZero
<1>8. CASE HostSends
  BY <1>8 DEF HostSends, ReadCommand
<1>9. CASE BadPacket
  BY <1>9 DEF BadPacket
<1>10. CASE HostTakes
  BY <1>10 DEF HostTakes
<1>11. CASE Neighbor
  <2>1. CASE NeighborTakes
    BY <1>11, <2>1 DEF Neighbor, NeighborTakes, NeighborAnswers, NeighborAsks
  <2>2. CASE NeighborAnswers /\ UNCHANGED did
    BY <1>11, <2>2 DEF Neighbor, NeighborTakes, NeighborAnswers, NeighborAsks
  <2>3. CASE NeighborAnswers /\ Does("data")
    BY <1>11, <2>3 DEF Neighbor, NeighborTakes, NeighborAnswers, NeighborAsks
  <2>4. CASE NeighborAsks /\ UNCHANGED did
    BY <1>11, <2>4 DEF Neighbor, NeighborTakes, NeighborAnswers, NeighborAsks
  <2>5. CASE NeighborAsks /\ Does("serve")
    BY <1>11, <2>5 DEF Neighbor, NeighborTakes, NeighborAnswers, NeighborAsks
  <2> QED
    BY <1>11, <2>1, <2>2, <2>3, <2>4, <2>5 DEF Neighbor, NeighborTakes, NeighborAnswers, NeighborAsks
<1>12. CASE CheckPin
  BY <1>12 DEF CheckPin
<1> QED
  BY <1>1, <1>2, <1>3, <1>4, <1>5, <1>6, <1>7,
     <1>8, <1>9, <1>10, <1>11, <1>12 DEF LoopStep

LEMMA LoopWait ==
  ASSUME IInv, LoopStep \/ CheckPin
  PROVE  WaitKnown'
<1> USE DEF IInv, TypeOK, LoopTypeOK, PinKnown, WaitKnown,
    trngVars, hwVars, Goto, Answer, Fault, Does, StartTimer
<1>1. CASE BootTrng
  BY <1>1 DEF BootTrng
<1>2. CASE BootTimer
  BY <1>2 DEF BootTimer
<1>3. CASE Top
  BY <1>3 DEF Top
<1>4. CASE ComparePin
  BY <1>4 DEF ComparePin
<1>5. CASE RefusePin
  BY <1>5 DEF RefusePin
<1>6. CASE Handling
  BY <1>6 DEF Handling, ListFiles, SendList, ReadFile, WriteFile,
     SendRequest, Store, StoreDamaged, Handles
<1>7. CASE TimerZero
  BY <1>7 DEF TimerZero
<1>8. CASE HostSends
  BY <1>8 DEF HostSends, ReadCommand
<1>9. CASE BadPacket
  BY <1>9 DEF BadPacket
<1>10. CASE HostTakes
  BY <1>10 DEF HostTakes
<1>11. CASE Neighbor
  BY <1>11 DEF Neighbor, NeighborTakes, NeighborAnswers, NeighborAsks
<1>12. CASE CheckPin
  BY <1>12 DEF CheckPin
<1> QED
  BY <1>1, <1>2, <1>3, <1>4, <1>5, <1>6, <1>7,
     <1>8, <1>9, <1>10, <1>11, <1>12 DEF LoopStep

LEMMA LoopTrng ==
  ASSUME IInv, LoopStep \/ CheckPin
  PROVE  FreshRandom' /\ TrngKnown'
<1> USE DEF IInv, TypeOK, TrngTypeOK, FreshRandom, TrngKnown, IsDone, IsReady,
    trngVars, hwVars, Goto, Answer, Fault, Does, StartTimer
<1>1. CASE BootTrng
  BY <1>1 DEF BootTrng
<1>2. CASE BootTimer
  BY <1>2 DEF BootTimer
<1>3. CASE Top
  BY <1>3 DEF Top
<1>4. CASE ComparePin
  BY <1>4 DEF ComparePin
<1>5. CASE RefusePin
  BY <1>5 DEF RefusePin
<1>6. CASE Handling
  BY <1>6 DEF Handling, ListFiles, SendList, ReadFile, WriteFile,
     SendRequest, Store, StoreDamaged, Handles
<1>7. CASE TimerZero
  BY <1>7 DEF TimerZero
<1>8. CASE HostSends
  BY <1>8 DEF HostSends, ReadCommand
<1>9. CASE BadPacket
  BY <1>9 DEF BadPacket
<1>10. CASE HostTakes
  BY <1>10 DEF HostTakes
<1>11. CASE Neighbor
  BY <1>11 DEF Neighbor, NeighborTakes, NeighborAnswers, NeighborAsks
<1>12. CASE CheckPin
  <2>1. CASE buf = "malformed"
    BY <1>12, <2>1 DEF CheckPin
  <2>2. CASE buf # "malformed"
    BY <1>12, <2>2 DEF CheckPin
  <2> QED
    BY <1>12, <2>1, <2>2 DEF CheckPin
<1> QED
  BY <1>1, <1>2, <1>3, <1>4, <1>5, <1>6, <1>7,
     <1>8, <1>9, <1>10, <1>11, <1>12 DEF LoopStep

LEMMA ResetKeeps == ASSUME IInv, Reset PROVE IInv'
<1>1. TrngTypeOK' /\ FreshRandom'
  BY DEF Reset, TrngReset, TrngTypeOK, FreshRandom
<1>2. LoopTypeOK'
  BY DEF Reset, IInv, TypeOK, LoopTypeOK
<1>3. OnlyOwnPin' /\ PinKnown' /\ WaitKnown'
  BY DEF Reset, OnlyOwnPin, PinKnown, WaitKnown
<1>4. TrngKnown'
  BY DEF Reset, TrngReset, TrngKnown
<1> QED BY <1>1, <1>2, <1>3, <1>4 DEF IInv, TypeOK

LEMMA Inductive == IInv /\ [Next]_vars => IInv'
<1> SUFFICES ASSUME IInv, [Next]_vars PROVE IInv'
  OBVIOUS
<1>1. CASE TrngDriver
  <2>1. UNCHANGED loopVars
    BY <1>1 DEF TrngDriver
  <2> QED BY <1>1, <2>1, LoopFrame, DriverTypes, DriverFresh, DriverKnown
       DEF IInv, TypeOK
<1>2. CASE (Execute \/ Capture \/ HealthFail) /\ UNCHANGED loopVars
  BY <1>2, HardwareKeeps
<1>3. CASE LoopStep \/ CheckPin
  BY <1>3, LoopTypes, LoopOwnPin, LoopWait, LoopTrng DEF IInv
<1>4. CASE Reset
  BY <1>4, ResetKeeps
<1>5. CASE UNCHANGED vars
  BY <1>5 DEF vars, trngVars, hwVars, loopVars, IInv, TypeOK, TrngTypeOK,
     LoopTypeOK, OnlyOwnPin,
     FreshRandom, PinKnown, WaitKnown, TrngKnown, IsDone, IsReady
<1> QED
  BY <1>1, <1>2, <1>3, <1>4, <1>5 DEF Next, Processor, Peripherals, LoopStep

LEMMA Invariance == Spec => []IInv
<1> QED BY Initially, Inductive, PTL DEF Spec

(* Every variable of the loop, of the driver and of the TRNG keeps its     *)
(* type, and the loop never runs with a timer that did not power up        *)
(* (HSM.c init).                                                           *)
THEOREM TypeCorrect == Spec => []TypeOK
<1>1. IInv => TypeOK
  BY DEF IInv
<1> QED BY Invariance, <1>1, PTL

(* No handler runs on a PIN that its own packet did not carry.             *)
THEOREM OwnPin == Spec => []OnlyOwnPin
<1>1. IInv => OnlyOwnPin
  BY DEF IInv
<1> QED BY Invariance, <1>1, PTL

(* trng_generate returns only fresh words of a tested TRNG.                *)
THEOREM Fresh == Spec => []FreshRandom
<1>1. IInv => FreshRandom
  BY DEF IInv
<1> QED BY Invariance, <1>1, PTL

(* Whatever resets happen, "Invalid pin" comes after a whole wait.         *)
THEOREM Apart == Spec => GuessesApart
<1>1. ASSUME IInv, [Next]_vars, out' = "invalidPin", out # "invalidPin"
      PROVE  waited = "full"
  <2> USE DEF Goto, Answer, Fault
  <2>1. CASE RefusePin
    BY <1>1, <2>1 DEF RefusePin, IInv, WaitKnown
  <2>2. CASE TrngDriver \/ UNCHANGED loopVars \/ UNCHANGED vars
    BY <1>1, <2>2 DEF TrngDriver, loopVars, vars
  <2>3. CASE BootTrng \/ BootTimer \/ Top \/ TimerZero \/ HostTakes \/ Reset
    BY <1>1, <2>3 DEF BootTrng, BootTimer, Top, TimerZero, HostTakes, Reset
  <2>4. CASE CheckPin \/ ComparePin \/ HostSends \/ BadPacket
    BY <1>1, <2>4 DEF CheckPin, ComparePin, StartTimer, HostSends, ReadCommand,
       BadPacket
  <2>5. CASE Handling \/ Neighbor
    BY <1>1, <2>5 DEF IInv, TypeOK, LoopTypeOK, Handling, ListFiles,
       SendList, ReadFile, WriteFile, SendRequest, Store, StoreDamaged, Handles, Neighbor,
       NeighborTakes, NeighborAnswers, NeighborAsks
  <2> QED BY <1>1, <2>1, <2>2, <2>3, <2>4, <2>5 DEF Next, Processor, Peripherals
<1>2. IInv /\ [Next]_vars =>
        [out' = "invalidPin" /\ out # "invalidPin" => waited = "full"]_vars
  BY <1>1
<1> QED BY Invariance, <1>2, PTL DEF Spec, GuessesApart
=============================================================================
