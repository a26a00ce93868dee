----------------------------- MODULE TamperLatch -----------------------------
(***************************************************************************)
(* The brownout latch: tamper_latch.c, tamper_lock.c, tamper_nmi.c, and    *)
(* the boot sequence and main loop of HSM.c that consult it.               *)
(*                                                                         *)
(* The latch is a four byte record in the battery-backed scratchpad.  The  *)
(* program writes it byte by byte, the NMI preempts the main thread at any *)
(* point and never returns, and a reset may cut either of them between two *)
(* bytes.  The record is read in one step: only the NMI could change it    *)
(* meanwhile, and then the reader never resumes.                           *)
(*                                                                         *)
(* tl_checksum(magic, flag, ~flag) is 0 for every flag, so a record whose  *)
(* third byte complements its second is valid iff its last byte is 0.      *)
(* What a command does is left out: here only that one is handled matters. *)
(***************************************************************************)
EXTENDS Integers

CONSTANT Word  \* what an uninitialised scratchpad word may hold

MAGIC == 165   \* TL_MAGIC_VALUE
CLEAR == 0     \* TL_FLAG_CLEAR
TRIPPED == 1   \* TL_FLAG_TRIPPED

Index == 1 .. 4
Byte == 0 .. 255

ASSUME WordAssumption == Word \subseteq [Index -> Byte]

VARIABLES
  rec,      \* the scratchpad word: magic, flag, inverted flag, checksum
  pc,       \* where the main thread is
  mainAt,   \* the byte its tl_write_record writes next
  nmi,      \* whether NMI_Handler runs: none, trip (writing), lock
  nmiAt,    \* the byte its tl_write_record writes next
  latched,  \* history: a trip record has been written in full
  torn      \* history: a reset cut a trip record after its flag byte

vars == <<rec, pc, mainAt, nmi, nmiAt, latched, torn>>

(* The record tl_write_record leaves for a flag, and its validity.         *)
Image(flag) == <<MAGIC, flag, 255 - flag, 0>>

Valid(r) ==
  /\ r[1] = MAGIC
  /\ r[3] = 255 - r[2]
  /\ r[4] = 0
  /\ r[2] \in {CLEAR, TRIPPED}

(* Mutant: the flag is not looked at.                                      *)
IsTrippedNoFlag == ~ Valid(rec)

(* tamper_latch_is_tripped: an unreadable record counts as tripped.        *)
IsTripped == ~ Valid(rec) \/ rec[2] = TRIPPED

-----------------------------------------------------------------------------
(* The main thread: init, then the command loop.                           *)

Init ==
  /\ rec \in Word
  /\ pc = "reset"
  /\ mainAt = 1
  /\ nmi = "none"
  /\ nmiAt = 1
  /\ latched = FALSE
  /\ torn = FALSE

MainAt(from, to) ==
  /\ nmi = "none"
  /\ pc = from
  /\ pc' = to

(* Mutant: the record is initialised at every boot.                        *)
InitLatchAlways ==
  /\ MainAt("latchInit", "clear")
  /\ mainAt' = 1
  /\ UNCHANGED <<rec, nmi, nmiAt, latched, torn>>

(* Mutant: an unreadable record is left as it is.                          *)
InitLatchNever ==
  /\ MainAt("latchInit", "bootCheck")
  /\ UNCHANGED <<rec, mainAt, nmi, nmiAt, latched, torn>>

(* tamper_latch_init_if_needed: an unreadable record is to be cleared.     *)
InitLatch ==
  /\ MainAt("latchInit", IF Valid(rec) THEN "bootCheck" ELSE "clear")
  /\ mainAt' = 1
  /\ UNCHANGED <<rec, nmi, nmiAt, latched, torn>>

(* Mutant: the write runs one byte past the record.                        *)
ClearByteOverrun ==
  /\ MainAt("clear", IF mainAt = 5 THEN "bootCheck" ELSE "clear")
  /\ rec' = IF mainAt = 5 THEN rec
            ELSE [rec EXCEPT ![mainAt] = Image(CLEAR)[mainAt]]
  /\ mainAt' = IF mainAt = 5 THEN 1 ELSE mainAt + 1
  /\ UNCHANGED <<nmi, nmiAt, latched, torn>>

(* One byte of tl_write_record(TL_FLAG_CLEAR).                             *)
ClearByte ==
  /\ MainAt("clear", IF mainAt = 4 THEN "bootCheck" ELSE "clear")
  /\ rec' = [rec EXCEPT ![mainAt] = Image(CLEAR)[mainAt]]
  /\ mainAt' = IF mainAt = 4 THEN 1 ELSE mainAt + 1
  /\ UNCHANGED <<nmi, nmiAt, latched, torn>>

(* The check in init, and the two checks of each turn of the main loop.    *)
Check(from, to) ==
  /\ MainAt(from, IF IsTripped THEN "locked" ELSE to)
  /\ UNCHANGED <<rec, mainAt, nmi, nmiAt, latched, torn>>

BootCheck == Check("bootCheck", "peripherals")
LoopCheck == Check("loopCheck", "readPacket")
CommandCheck == Check("commandCheck", "handle")

Go(from, to) ==
  /\ MainAt(from, to)
  /\ UNCHANGED <<rec, mainAt, nmi, nmiAt, latched, torn>>

(* SYSCFG_DL_init and tamper_bor_nmi_init: from here on a brownout is an   *)
(* NMI, where before it is a plain reset.                                  *)
ArmBrownout == Go("reset", "latchInit")

(* init_fs, trng_init, timer_init: the last two stop the boot on failure.  *)
Peripherals == Go("peripherals", "loopCheck") \/ Go("peripherals", "halted")

(* read_packet: it returns with a command or with an error.                *)
ReadPacket == Go("readPacket", "commandCheck") \/ Go("readPacket", "loopCheck")

(* The switch on the command: one handler runs to its end.                 *)
Handle == Go("handle", "loopCheck")

Main ==
  \/ ArmBrownout \/ InitLatch \/ ClearByte \/ BootCheck \/ Peripherals
  \/ LoopCheck \/ ReadPacket \/ CommandCheck \/ Handle

-----------------------------------------------------------------------------
(* The NMI, resets and the loss of the backup supply.                      *)

(* NMI_Handler is entered.  Its two branches, for a brownout and for any   *)
(* other cause, both trip the latch; the others can come at any time.      *)
EnterNMI ==
  /\ nmi = "none"
  /\ nmi' = "trip"
  /\ nmiAt' = 1
  /\ UNCHANGED <<rec, pc, mainAt, latched, torn>>

(* Mutant: the handler returns to the interrupted thread.                  *)
TripByteReturns ==
  /\ nmi = "trip"
  /\ rec' = [rec EXCEPT ![nmiAt] = Image(TRIPPED)[nmiAt]]
  /\ IF nmiAt = 4
       THEN nmi' = "none" /\ nmiAt' = 1 /\ latched' = TRUE
       ELSE nmiAt' = nmiAt + 1 /\ UNCHANGED <<nmi, latched>>
  /\ UNCHANGED <<pc, mainAt, torn>>

(* One byte of tl_write_record(TL_FLAG_TRIPPED); after the last one the    *)
(* handler enters enter_tamper_lock_mode, which never returns.             *)
TripByte ==
  /\ nmi = "trip"
  /\ rec' = [rec EXCEPT ![nmiAt] = Image(TRIPPED)[nmiAt]]
  /\ IF nmiAt = 4
       THEN nmi' = "lock" /\ nmiAt' = 1 /\ latched' = TRUE
       ELSE nmiAt' = nmiAt + 1 /\ UNCHANGED <<nmi, latched>>
  /\ UNCHANGED <<pc, mainAt, torn>>

(* A reset or power loss, at any time; the scratchpad keeps its bytes.     *)
Reset ==
  /\ pc' = "reset"
  /\ mainAt' = 1
  /\ nmi' = "none"
  /\ nmiAt' = 1
  /\ torn' = (torn \/ (nmi = "trip" /\ nmiAt = 3))
  /\ UNCHANGED <<rec, latched>>

(* The backup supply is lost: the scratchpad holds anything afterwards.    *)
BackupLost ==
  /\ rec' \in Word
  /\ pc' = "reset"
  /\ mainAt' = 1
  /\ nmi' = "none"
  /\ nmiAt' = 1
  /\ latched' = FALSE
  /\ torn' = FALSE

Next ==
  \/ Main
  \/ EnterNMI
  \/ TripByte
  \/ Reset
  \/ BackupLost

Spec == Init /\ [][Next]_vars

(* The processor keeps running: whichever context is active makes its next *)
(* step unless a reset or an NMI comes first.  A packet need not arrive.   *)
Progress ==
  \/ ArmBrownout \/ InitLatch \/ ClearByte \/ BootCheck \/ Peripherals
  \/ LoopCheck \/ CommandCheck \/ Handle \/ TripByte

FairSpec == Spec /\ WF_vars(Progress)

-----------------------------------------------------------------------------
(* Properties.                                                             *)

TypeOK ==
  /\ rec \in [Index -> Byte]
  /\ pc \in {"reset", "latchInit", "clear", "bootCheck", "peripherals",
             "loopCheck", "readPacket", "commandCheck", "handle",
             "locked", "halted"}
  /\ mainAt \in Index
  /\ nmi \in {"none", "trip", "lock"}
  /\ nmiAt \in Index
  /\ latched \in BOOLEAN
  /\ torn \in BOOLEAN

(* Once a trip record is complete, no packet is read and no command is     *)
(* started or carried on, however many resets follow, and even if the NMI  *)
(* came between the boot's reading of an unreadable record and the end of  *)
(* its rewriting, or in the middle of a command.                           *)
NoCommandAfterTrip ==
  [][latched => ~ (ReadPacket \/ CommandCheck \/ Handle)]_vars

(* A complete trip record is never overwritten, and with it on record the  *)
(* main thread is before the boot check, locked, or preempted for good.    *)
TripKept ==
  latched =>
    /\ rec = Image(TRIPPED)
    /\ \/ nmi = "lock"
       \/ pc \in {"reset", "latchInit", "bootCheck", "locked"}

(* While the handler writes its record, the bytes before nmiAt are right.  *)
TripUnderway ==
  nmi = "trip" => \A i \in 1 .. nmiAt - 1 : rec[i] = Image(TRIPPED)[i]

(* The inductive invariant behind TripKept and NoCommandAfterTrip.         *)
IInv == TypeOK /\ TripKept /\ TripUnderway

(* A tripped device ends up locked, whatever it was doing, once resets     *)
(* stop, unless the backup supply is lost.                                 *)
TrippedLocks ==
  <>[][~ (Reset \/ BackupLost)]_vars
    => (latched ~> (pc = "locked" \/ nmi = "lock" \/ ~ latched))

(* A device that boots with an unreadable record reaches the command loop, *)
(* or stops at a peripheral that fails, once resets stop and no NMI comes: *)
(* being unprogrammed never locks it out.                                  *)
UntrippedServes ==
  <>[][~ (Reset \/ BackupLost)]_vars
    => ((pc = "reset" /\ ~ Valid(rec)) ~>
          \/ pc \in {"readPacket", "halted"}
          \/ nmi # "none"
          \/ rec = Image(TRIPPED))

(* tamper_latch.c:65 says of an unreadable record "Fail-safe to tripped is *)
(* safer", and tamper_nmi.c:32 "Never return to normal execution after a   *)
(* tamper event".  Then a trip record that a reset cut after its flag byte *)
(* should keep commands from being handled.                                *)
TornTripFailsSafe == torn => pc # "handle"
=============================================================================
