--------------------------------- MODULE Trng ---------------------------------
(***************************************************************************)
(* simple_trng.c: trng_init and trng_generate, and the TRNG they poll.     *)
(* The TRNG runs beside the processor: it executes the command in its CMD  *)
(* field, captures a word whenever it has collected one, and stops in the  *)
(* ERR state when a health check fails.  A word is known by its quality;   *)
(* clock, decimation rate and interrupt masks are left out.                *)
(***************************************************************************)
CONSTANT None   \* no command, nothing returned yet

VARIABLES
  hw,       \* the state of the TRNG
  command,  \* the command it is executing
  flags,    \* its interrupt flags CMD_DONE and CAPTURE_RDY
  capture,  \* what DATA_CAPTURE holds: a fresh word, one that has been read,
            \*   or a poor one, the first of an untested or just tested TRNG
  passed,   \* the self-tests the TRNG has passed, and whether a word has
            \*   been read since the last of them
  drv,      \* where the driver is
  temp      \* trng_generate: the word read last

hwVars == <<hw, command, flags, capture, passed>>
trngVars == <<hwVars, drv, temp>>

Tests == {"TEST_DIG", "TEST_ANA"}
TrngCommand == Tests \cup {"NORM_FUNC", "PWR_OFF"}
Word == {"poor", "fresh", "read"}

ASSUME TrngAssumption == None \notin TrngCommand \cup Word

-----------------------------------------------------------------------------
(* The TRNG.                                                               *)

(* A command ends; a TRNG in the ERR state only executes PWR_OFF.          *)
Execute ==
  /\ command # None
  /\ hw = "ERR" => command = "PWR_OFF"
  /\ command' = None
  /\ flags' = flags \cup {"CMD_DONE"}
  /\ \/ /\ command \in Tests
        /\ passed' = (passed \cup {command}) \ {"read"}
        /\ hw' = "NORM_FUNC"
     \/ /\ command \in Tests
        /\ passed' = passed \ {command, "read"}
        /\ hw' = IF command = "TEST_DIG" THEN "NORM_FUNC" ELSE "ERR"
     \/ command = "NORM_FUNC" /\ hw' = "NORM_FUNC" /\ UNCHANGED passed
     \/ command = "PWR_OFF" /\ hw' = "OFF" /\ UNCHANGED passed
  /\ UNCHANGED <<capture, drv, temp>>

Capture ==
  /\ hw = "NORM_FUNC"
  /\ flags' = flags \cup {"CAPTURE_RDY"}
  /\ capture' = IF passed = Tests \cup {"read"} THEN "fresh" ELSE "poor"
  /\ UNCHANGED <<hw, command, passed, drv, temp>>

(* A health check fails.  Nothing in the firmware asks for it.             *)
HealthFail ==
  /\ hw = "NORM_FUNC"
  /\ hw' = "ERR"
  /\ UNCHANGED <<command, flags, capture, passed, drv, temp>>

-----------------------------------------------------------------------------
(* The driver.                                                             *)

(* It polls a flag, clears it, and sends the next command.                 *)
IsDone == "CMD_DONE" \in flags
ClearFlag(f) == flags' = flags \ {f}
Send(c) == ClearFlag("CMD_DONE") /\ command' = c

(* DL_TRNG_getCapture.                                                     *)
IsReady == "CAPTURE_RDY" \in flags
GetCapture == capture' = "read" /\ passed' = passed \cup {"read"}

(* trng_init: power on, then the two self-tests.                           *)
PowerOn ==
  /\ drv = "off"
  /\ Send("NORM_FUNC")
  /\ drv' = "norm"
  /\ UNCHANGED <<hw, capture, passed, temp>>

TestDigital ==
  /\ drv = "norm" /\ IsDone
  /\ Send("TEST_DIG")
  /\ drv' = "digital"
  /\ UNCHANGED <<hw, capture, passed, temp>>

CheckDigital ==
  /\ drv = "digital" /\ IsDone
  /\ IF "TEST_DIG" \in passed
       THEN Send("TEST_ANA") /\ drv' = "analog"
       ELSE Send(None) /\ drv' = "failed"
  /\ UNCHANGED <<hw, capture, passed, temp>>

(* After the analog test CAPTURE_RDY is cleared and the decimation rate    *)
(* set with another NORM_FUNC; a TRNG that failed it is powered off.       *)
CheckAnalog ==
  /\ drv = "analog" /\ IsDone
  /\ IF "TEST_ANA" \in passed
       THEN flags' = {} /\ command' = "NORM_FUNC" /\ drv' = "setRate"
       ELSE Send("PWR_OFF") /\ drv' = "powerOff"
  /\ UNCHANGED <<hw, capture, passed, temp>>

PoweredOff ==
  /\ drv = "powerOff" /\ IsDone
  /\ Send(None)
  /\ drv' = "failed"
  /\ UNCHANGED <<hw, capture, passed, temp>>

RateSet ==
  /\ drv = "setRate" /\ IsDone
  /\ Send(None)
  /\ drv' = "discard"
  /\ UNCHANGED <<hw, capture, passed, temp>>

(* The first word is read and thrown away.                                 *)
ReadFirst ==
  /\ drv = "discard" /\ IsReady
  /\ GetCapture
  /\ drv' = "discarded"
  /\ UNCHANGED <<hw, command, flags, temp>>

Discarded ==
  /\ drv = "discarded"
  /\ ClearFlag("CAPTURE_RDY")
  /\ drv' = "idle"
  /\ UNCHANGED <<hw, command, capture, passed, temp>>

(* trng_generate.                                                          *)
ReadWord ==
  /\ drv = "generate" /\ IsReady
  /\ temp' = capture
  /\ GetCapture
  /\ drv' = "clear"
  /\ UNCHANGED <<hw, command, flags>>

(* Mutant: the flag stays set.                                             *)
GeneratedNoClear ==
  /\ drv = "clear"
  /\ drv' = "idle"
  /\ UNCHANGED <<hwVars, temp>>

Generated ==
  /\ drv = "clear"
  /\ ClearFlag("CAPTURE_RDY")
  /\ drv' = "idle"
  /\ UNCHANGED <<hw, command, capture, passed, temp>>

Driver ==
  \/ PowerOn \/ TestDigital \/ CheckDigital \/ CheckAnalog \/ PoweredOff
  \/ RateSet \/ ReadFirst \/ Discarded \/ ReadWord \/ Generated

(* A chip reset.                                                           *)
TrngInit ==
  /\ hw = "OFF" /\ command = None /\ flags = {}
  /\ capture = "poor" /\ passed = {}
  /\ drv = "off" /\ temp = None

TrngReset ==
  /\ hw' = "OFF" /\ command' = None /\ flags' = {}
  /\ capture' = "poor" /\ passed' = {}
  /\ drv' = "off" /\ temp' = None

TrngTypeOK ==
  /\ hw \in {"OFF", "NORM_FUNC", "ERR"}
  /\ command \in TrngCommand \cup {None}
  /\ flags \subseteq {"CMD_DONE", "CAPTURE_RDY"}
  /\ capture \in Word
  /\ passed \subseteq Tests \cup {"read"}
  /\ drv \in {"off", "norm", "digital", "analog", "powerOff", "setRate",
              "discard", "discarded", "failed", "idle", "generate", "clear"}
  /\ temp \in Word \cup {None}
=============================================================================
