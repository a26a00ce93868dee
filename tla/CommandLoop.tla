----------------------------- MODULE CommandLoop -----------------------------
(***************************************************************************)
(* HSM.c and commands.c on one device: boot, the main loop, and every      *)
(* command handler from its packet to its answer, with check_pin, the      *)
(* TRNG, the 5 s timer, and resets at any point.  The host sends a command *)
(* when the device has said it is ready; what files hold, and the other    *)
(* device, are reduced to the outcomes the handlers tell apart.            *)
(*                                                                         *)
(* Hosts send slots of the table, and with a name a length of at most      *)
(* MAX_CONTENTS_SIZE.  Neither is checked (filesystem.c:64, 101), and what *)
(* is past the table or the file_t of write() is overwritten, after which  *)
(* nothing is defined.                                                     *)
(*                                                                         *)
(* Elsewhere: the tamper latch in TamperLatch, the file system in          *)
(* FileStore, the lines in PacketLink, two devices in HsmPair.             *)
(***************************************************************************)
EXTENDS Trng

VARIABLES
  pc,      \* where the main loop or a handler is
  cmd,     \* the opcode of the command
  buf,     \* the PIN in uart_buf; zeros are malformed
  out,     \* the message being written to the host
  timer,   \* off, stopped or running
  damaged, \* whether a slot is readable whose header is not create_file's
  sent,    \* history: the PIN in the host's last packet, absent if too short
  did,     \* history: what the last command has caused so far
  waited   \* history: since the last "Invalid pin" the timer has been
           \*   started ("some") and run out ("full")

loopVars == <<pc, cmd, buf, out, timer, damaged, sent, did, waited>>
vars == <<trngVars, loopVars>>

Pin == {"right", "wrong", "malformed"}
PinCommands == {"list", "read", "write", "receive", "interrogate"}
Opcode == PinCommands \cup {"listen", "other"}

Goto(l) == pc' = l /\ UNCHANGED out

(* print_error and write_packet on the CONTROL_INTERFACE.                  *)
Answer(m) == pc' = "answer" /\ out' = m

(* The hard fault of a copy that runs off the stack, where the device      *)
(* stays until it is reset.  A damaged file may have any length and a name *)
(* without an end; the copy of one may also happen to end.                 *)
Fault == pc' = "fault" /\ UNCHANGED out

(* What a command does to anyone else.                                     *)
Does(e) == did' = did \cup {e}

-----------------------------------------------------------------------------
(* init, after the latch and the file system, and the main loop.           *)

BootTrng ==
  /\ pc = "trngInit"
  /\ \/ drv = "failed" /\ Goto("halted")
     \/ drv = "idle" /\ Goto("timerInit")
  /\ UNCHANGED <<trngVars, cmd, buf, timer, damaged, sent, did, waited>>

(* Mutant: init does not look at what timer_init returns.                  *)
BootTimerAnyhow ==
  /\ pc = "timerInit"
  /\ timer' \in {"off", "stopped"} /\ Goto("top")
  /\ UNCHANGED <<trngVars, cmd, buf, damaged, sent, did, waited>>

(* timer_init, which fails if the timer does not power up.                 *)
BootTimer ==
  /\ pc = "timerInit"
  /\ \/ timer' = "stopped" /\ Goto("top")
     \/ UNCHANGED timer /\ Goto("halted")
  /\ UNCHANGED <<trngVars, cmd, buf, damaged, sent, did, waited>>

(* Mutant: the buffer is left as it is.                                    *)
TopNoClear ==
  /\ pc = "top"
  /\ Goto("ready")
  /\ UNCHANGED <<trngVars, cmd, buf, timer, damaged, sent, did, waited>>

(* The top of the loop clears uart_buf and says "Ready".                   *)
Top ==
  /\ pc = "top"
  /\ buf' = "malformed"
  /\ Goto("ready")
  /\ UNCHANGED <<trngVars, cmd, timer, damaged, sent, did, waited>>

(* read_packet returns and the command is dispatched.  Nobody looks at the *)
(* length: a PIN that did not come is whatever uart_buf holds.             *)
ReadCommand(op, pin) ==
  /\ pc = "ready"
  /\ cmd' = op
  /\ sent' = pin
  /\ buf' = IF pin = "absent" THEN buf ELSE pin
  /\ did' = {}
  /\ \/ op = "other" /\ Answer("error")
     \/ op = "listen" /\ Goto("listen")
     \/ op = "list" /\ Goto("listFiles")
     \/ op \in PinCommands \ {"list"} /\ Goto("checkPin")
  /\ UNCHANGED <<trngVars, timer, damaged, waited>>

(* read_packet fails: the packet is too long.                              *)
BadPacket ==
  /\ pc = "ready"
  /\ Answer("error")
  /\ cmd' = "other" /\ sent' = "absent" /\ did' = {}
  /\ UNCHANGED <<trngVars, buf, timer, damaged, waited>>

(* The host takes the message, and the handler returns to the loop.        *)
HostTakes ==
  /\ pc = "answer"
  /\ pc' = "top" /\ out' = "none"
  /\ UNCHANGED <<trngVars, cmd, buf, timer, damaged, sent, did, waited>>

-----------------------------------------------------------------------------
(* check_pin, and what every handler does when it refuses.                 *)

(* DL_TimerG_startCounter.                                                 *)
StartTimer ==
  /\ timer' = "running"
  /\ waited' = "some"
  /\ Goto("wait5s")

CheckPin ==
  /\ pc = "checkPin"
  /\ IF buf = "malformed"
       THEN StartTimer /\ UNCHANGED drv
       ELSE Goto("randomDelay") /\ drv' = "generate" /\ UNCHANGED <<timer, waited>>
  /\ UNCHANGED <<hwVars, temp, cmd, buf, damaged, sent, did>>

(* After random_delay the tags are compared; computing them may fail.      *)
ComparePin ==
  /\ pc = "randomDelay"
  /\ drv = "idle"
  /\ \/ buf = "right" /\ Goto("handle") /\ UNCHANGED <<timer, waited>>
     \/ StartTimer
  /\ UNCHANGED <<trngVars, cmd, buf, damaged, sent, did>>

(* Mutant: the timer is left in its repeat mode.                           *)
TimerRepeats ==
  /\ timer = "running"
  /\ waited' = "full"
  /\ UNCHANGED <<trngVars, pc, cmd, buf, out, timer, damaged, sent, did>>

(* The one-shot timer runs out.                                            *)
TimerZero ==
  /\ timer = "running"
  /\ timer' = "stopped"
  /\ waited' = "full"
  /\ UNCHANGED <<trngVars, pc, cmd, buf, out, damaged, sent, did>>

(* Mutant: the handler does not wait before it answers.                    *)
RefuseAtOnce ==
  /\ pc = "wait5s"
  /\ Answer("invalidPin")
  /\ waited' = "none"
  /\ UNCHANGED <<trngVars, cmd, buf, timer, damaged, sent, did>>

RefusePin ==
  /\ pc = "wait5s"
  /\ timer = "stopped"
  /\ Answer("invalidPin")
  /\ waited' = "none"
  /\ UNCHANGED <<trngVars, cmd, buf, timer, damaged, sent, did>>

-----------------------------------------------------------------------------
(* The handlers.  Each step leads to another or to one answer.             *)

Handles(c, l) == cmd = c /\ pc = l

(* generate_list_files, before the PIN is looked at: each readable file is *)
(* copied and its name copied on.                                          *)
ListFiles ==
  /\ Handles("list", "listFiles")
  /\ Goto("checkPin") \/ (damaged /\ Fault)
  /\ UNCHANGED <<did, damaged>>

SendList ==
  /\ Handles("list", "handle")
  /\ Answer("list") /\ Does("data")
  /\ UNCHANGED damaged

(* No such file, no permission, or done; the file is copied three times    *)
(* before its group is looked at.                                          *)
ReadFile ==
  /\ Handles("read", "handle")
  /\ \/ Answer("error") /\ UNCHANGED did
     \/ Answer("read") /\ Does("data")
     \/ damaged /\ Fault /\ UNCHANGED did
  /\ UNCHANGED damaged

(* No permission, or write_file: of the file create_file has made, or,     *)
(* when the name is empty, of an object nobody has initialized.            *)
WriteFile ==
  /\ Handles("write", "handle")
  /\ Answer("error") \/ Goto("store") \/ Goto("storeDamaged")
  /\ UNCHANGED <<did, damaged>>

SendRequest ==
  /\ Handles("receive", "handle") \/ Handles("interrogate", "handle")
  /\ Goto("request") /\ Does("request")
  /\ UNCHANGED damaged

(* write_file of a file create_file has made, whatever it returns.  A      *)
(* flash command that fails may leave the slot damaged, and the slot may   *)
(* have been the one that was.                                             *)
Store ==
  /\ pc = "store"
  /\ Answer("error") \/ Answer(cmd)
  /\ Does("flash")
  /\ damaged' \in BOOLEAN

(* write_file of anything else.  flash_simple_write copies the object to   *)
(* its stack, which may end before the object does: then the slot has its  *)
(* entry and erased pages.                                                 *)
StoreDamaged ==
  /\ pc = "storeDamaged"
  /\ \/ (Answer("error") \/ Answer(cmd)) /\ damaged' \in BOOLEAN
     \/ Fault /\ damaged' = TRUE
  /\ Does("flash")

(* The neighbor reads what it is sent, and the handler goes on whatever    *)
(* write_packet returns.                                                   *)
NeighborTakes ==
  /\ \/ pc = "request" /\ Goto("response")
     \/ pc = "serve" /\ Answer("listen")
  /\ UNCHANGED did

(* read_packet returns what the neighbor sends: a response with the right  *)
(* opcode or another, and a file as the neighbor has it,                   *)
NeighborAnswers ==
  /\ pc = "response"
  /\ \/ Answer("error") /\ UNCHANGED did
     \/ /\ cmd = "receive" /\ UNCHANGED did
        /\ Goto("store") \/ Goto("storeDamaged")
     \/ cmd = "interrogate" /\ Answer("interrogate") /\ Does("data")

(* or a request for a list or for a file, which is copied, or neither.     *)
NeighborAsks ==
  /\ pc = "listen"
  /\ \/ Answer("error") /\ UNCHANGED did
     \/ Goto("serve") /\ Does("serve")
     \/ damaged /\ Fault /\ UNCHANGED did

Handling ==
  /\ \/ ListFiles \/ SendList \/ ReadFile \/ WriteFile \/ SendRequest
     \/ Store \/ StoreDamaged
  /\ UNCHANGED <<trngVars, cmd, buf, timer, sent, waited>>

Neighbor ==
  /\ NeighborTakes \/ NeighborAnswers \/ NeighborAsks
  /\ UNCHANGED <<trngVars, cmd, buf, timer, damaged, sent, waited>>

-----------------------------------------------------------------------------
Init ==
  /\ TrngInit
  /\ pc = "trngInit" /\ cmd = "none" /\ buf = "malformed" /\ out = "none"
  /\ timer = "off" /\ damaged = FALSE
  /\ sent = "absent" /\ did = {} /\ waited = "none"

(* A reset of the chip.  A wait that has not run out is lost, and a write  *)
(* cut short may damage the slot, or lose the one that was.                *)
Reset ==
  /\ TrngReset
  /\ pc' = "trngInit" /\ cmd' = "none" /\ buf' = "malformed" /\ out' = "none"
  /\ timer' = "off"
  /\ IF pc \in {"store", "storeDamaged"} THEN damaged' \in BOOLEAN
                                         ELSE UNCHANGED damaged
  /\ sent' = "absent" /\ did' = {}
  /\ waited' = IF waited = "some" THEN "none" ELSE waited

TrngDriver ==
  /\ pc \in {"trngInit", "randomDelay"}
  /\ Driver
  /\ UNCHANGED loopVars

Processor ==
  \/ TrngDriver \/ BootTrng \/ BootTimer \/ Top
  \/ CheckPin \/ ComparePin \/ RefusePin \/ Handling

Peripherals ==
  \/ (Execute \/ Capture) /\ UNCHANGED loopVars
  \/ TimerZero

HostSends == \E op \in Opcode, pin \in Pin \cup {"absent"} : ReadCommand(op, pin)

Next ==
  \/ Processor \/ Peripherals
  \/ HealthFail /\ UNCHANGED loopVars
  \/ HostSends \/ BadPacket
  \/ HostTakes \/ Neighbor
  \/ Reset

Spec == Init /\ [][Next]_vars

(* The processor and the peripherals run; host and neighbor, once they are *)
(* in an exchange, do their part.  Nobody has to send a command.           *)
FairSpec ==
  /\ Spec
  /\ WF_vars(Processor)
  /\ WF_vars(Execute /\ UNCHANGED loopVars)
  /\ WF_vars(Capture /\ UNCHANGED loopVars)
  /\ WF_vars(TimerZero)
  /\ WF_vars(HostTakes)
  /\ WF_vars(Neighbor)

-----------------------------------------------------------------------------
(* Properties.                                                             *)

LoopTypeOK ==
  /\ pc \in {"trngInit", "timerInit", "halted", "top", "ready", "checkPin",
             "randomDelay", "wait5s", "listFiles", "handle", "store",
             "storeDamaged", "request", "response", "listen", "serve",
             "answer", "fault"}
  /\ cmd \in Opcode \cup {"none"}
  /\ buf \in Pin
  /\ out \in Opcode \cup {"error", "invalidPin", "none"}
  /\ timer \in {"off", "stopped", "running"}
  /\ damaged \in BOOLEAN
  /\ sent \in Pin \cup {"absent"}
  /\ did \subseteq {"flash", "request", "data", "serve"}
  /\ waited \in {"none", "some", "full"}
  /\ pc \notin {"trngInit", "timerInit", "halted"} => timer # "off"

TypeOK == TrngTypeOK /\ LoopTypeOK

(* Nothing is written to flash, asked of the neighbor or told of the files *)
(* for a packet that did not itself carry the right PIN: no PIN left over  *)
(* from an earlier command, however short the packet, and no reset in      *)
(* between, opens a handler (HSM.c:106, "sensitive data from a past        *)
(* session isn't retained"; no handler looks at pkt_len).                  *)
OnlyOwnPin == did \subseteq {"serve"} \/ sent = "right"

(* Every "Invalid pin" the host is told has had a whole run of the timer   *)
(* of its own, started after the previous one: resets, which cut a wait    *)
(* short, never bring two such answers closer together.                    *)
GuessesApart ==
  [][out' = "invalidPin" /\ out # "invalidPin" => waited = "full"]_vars

(* What trng_generate returns is a word nobody has read before, from a     *)
(* TRNG that has passed both self-tests since the reset, and never the     *)
(* first word after them, wherever the captures fall between the polls,    *)
(* the reads and the clearings of the driver.                              *)
FreshRandom == temp # None => temp = "fresh"

(* Once resets stop and as long as the health checks hold, the device      *)
(* always comes back to reading commands, has stopped at a peripheral that *)
(* failed at boot, or has been given a damaged file, or an object of any   *)
(* length, to copy (commands.c:45, 111-112, simple_flash.c:86): no wait or *)
(* poll keeps it for ever, and no handler that has not met such a file.    *)
Serves ==
  <>[][~ Reset]_vars /\ <>[](hw # "ERR")
    => []<>(pc \in {"ready", "halted"} \/ (pc = "fault" /\ damaged))

(* What makes them inductive.  The buffer is clean when a packet is read,  *)
(* so a right PIN in it is the packet's.                                   *)
PinKnown ==
  /\ pc # "answer" => out = "none"
  /\ pc = "ready" => buf = "malformed"
  /\ pc \in {"listFiles", "checkPin", "randomDelay"} /\ buf = "right" =>
       sent = "right"
  /\ pc \in {"handle", "store", "storeDamaged", "request", "response"} =>
       sent = "right"

(* The timer only runs inside timer_wait_5s.                               *)
WaitKnown ==
  /\ timer = "running" => pc = "wait5s"
  /\ pc = "wait5s" /\ timer = "stopped" => waited = "full"

(* A command in the TRNG is the one the driver waits for, so the results   *)
(* of the self-tests stay as they were checked; and a word the flag        *)
(* announces has not been read, but for the moment before the clearing.    *)
TrngKnown ==
  /\ command = "NORM_FUNC" => drv \in {"norm", "setRate"} /\ ~ IsDone
  /\ command = "TEST_DIG" => drv = "digital" /\ ~ IsDone
  /\ command = "TEST_ANA" => drv = "analog" /\ ~ IsDone
  /\ command = "PWR_OFF" => drv = "powerOff" /\ ~ IsDone
  /\ drv = "analog" => "TEST_DIG" \in passed
  /\ drv \in {"setRate", "discard", "discarded", "idle", "generate", "clear"} =>
       Tests \subseteq passed
  /\ drv \in {"discarded", "idle", "generate", "clear"} =>
       "read" \in passed /\ capture # "poor"
  /\ drv \in {"idle", "generate"} /\ IsReady => capture = "fresh"
  /\ pc = "randomDelay" => drv \in {"generate", "clear", "idle"}
  /\ pc \notin {"trngInit", "halted", "randomDelay"} => drv = "idle"

IInv ==
  TypeOK /\ OnlyOwnPin /\ FreshRandom /\ PinKnown /\ WaitKnown /\ TrngKnown
=============================================================================
