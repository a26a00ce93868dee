# Verification of the UFSIT eCTF 2026 HSM firmware

TLA+ modules, TLC runs and TLAPS proofs about the firmware in `src/firmware/`:
a small hardware security module (HSM) on an MSPM0 microcontroller that keeps
up to eight files in flash, answers a host over one UART and exchanges files
with a neighboring HSM over a second one.  The code of the project is about
2900 lines: `src/firmware/src/*.c`, `src/firmware/inc/*.h`, the header
generator `src/firmware/secrets_to_c_header.py` and the key generator
`src/ectf26_design/src/gen_secrets.py`.  Everything else in the repository is
vendored (`src/firmware/wolfssl`) or generated by the chip vendor's tools.

`PROJECT.json` lists the components, runs, mutants, findings, hazards and
theorems, and maps each definition to the lines it models.

## 1. The system

| Component | State | Operations | Hard behaviour |
|---|---|---|---|
| File store: `filesystem.c`, `simple_flash.c` | FAT in RAM, FAT page in flash, nine flash pages per slot | `init_fs`, `write_file`, `read_file`, `is_slot_in_use`, `get_file_metadata`, `create_file` | resets between and inside flash commands; flash commands that fail and whose result is dropped; RAM copy against flash copy; the entry is stored before the file; lengths that nothing holds against the region |
| Tamper latch: `tamper_latch.c`, `tamper_nmi.c`, `tamper_lock.c` | a 4-byte record in the battery-backed scratchpad | initialize, check, trip; lock | an NMI at any instruction, byte-wise record writes, resets during both |
| Boot and main loop: `HSM.c` | program counter, input buffer | `init`, read a command, dispatch it | order of arming, initializing and checking the latch; peripherals that fail at boot; what the buffer holds when a packet is short |
| Message transport: `host_messaging.c`, `simple_uart.c` | per call: position in the packet | `write_packet`, `read_packet` | two ends that wait for each other's ACKs, no FIFO, no timeouts, both writing at once, restarts |
| Commands: `commands.c` | (the file store) | `list`, `read`, `write`, `receive`, `interrogate`, `listen` | two devices and two hosts acting independently; results of calls dropped; the PIN check and the wait after a wrong PIN, with resets in between; files a reset has damaged |
| Timer and random numbers: `simple_timer.c`, `simple_trng.c` | the driver's place; in the chip: state, command, flags and captured word of the TRNG, the one-shot timer | `timer_init`, `timer_wait_5s`, `trng_init`, `trng_generate` | the peripherals run beside the code that polls them; a flag set before it is cleared; failed self-tests; polls without a limit |
| Nonce cache and replay counters: `security.c` | two RAM tables with round-robin replacement, one counter | `nonce_accept`, `replay_ctr_accept`, `replay_ctr_next_local` | full tables, wrap-around, repeated and reordered messages. Exported; no caller in the firmware yet |
| PIN check and permissions: `security.c`, `secrets_to_c_header.py` | build-time constants | `check_pin`, `validate_permission`; the build script | the script and the firmware have to agree on group numbers, order, padding and letter case |
| `gmac.c`, `simple_crypto.c` | - | - | - |

The main loop calls one command handler at a time and the handler runs to its
end; inside a device only the NMI, the TRNG and the timer run beside it.
Between two devices, and between a device and its host, everything is
concurrent and connected by blocking UART reads.  Commands call the store and
the transport, and `check_pin`, which draws a random delay from the TRNG; a
handler that refuses a PIN waits on the timer; the store calls the flash
driver; the latch is consulted at boot and twice per command.

What makes each component correct:

- **File store** - a write of an object that fits replaces exactly one slot;
  whatever a reset or a failing flash command does to it, other slots are never
  altered, at worst emptied, and emptied only by a reset inside `store_fat`; a
  slot whose write is cut is as it was, empty, damaged or under the new UUID;
  an object that does not fit damages its own slot and may damage later ones,
  never more; RAM and flash agree whenever flash may have to stand in for RAM.
- **Latch** - a trip that was recorded in full keeps every command out for
  ever; a device that never tripped is not locked out.
- **Transport** - a packet arrives whole, once, or not at all, and the writer
  is told which; the two countings of 256-byte blocks never let both ends wait.
- **One device's loop** - a handler acts only on a PIN of its own packet; two
  refusals are a whole wait apart, resets or not; the loop is always reached
  again by a device that has not met a damaged file.
- **TRNG** - a word is delivered once, and only by a TRNG that passed its tests.
- **Commands** - what a transfer stores or reports is what the other device
  had at some moment of the command; only files that hosts wrote are stored; an
  exchange that nothing upsets ends on both sides.
- **Tables** - the nonce cache refuses exactly the recent nonces; the counter
  table never accepts a message twice and refuses only stale ones.
- **PIN and permissions** - the device decides as the text it was built from
  says.

## 2. The modules

    TamperLatch                            <-- TamperLatchProofs, MCTamperLatch
    SlotStore <-- FileStore                <-- FileStoreProofs, MCFileStore
    Trng <-- CommandLoop                   <-- CommandLoopProofs
    PacketLine <-- AtomicPacket <-- PacketLink  <-- PacketLinkProofs, MCPacketLink
    PacketLine, Permissions <-- HsmPair    <-- HsmPairProofs, MCHsmPair
    Permissions, PinCheck   <-- AccessProofs    <-- HsmPairProofs
    RecentNonces <-- NonceCache            <-- NonceCacheProofs
    NonceCache, ReplayCounter <-- AntiReplay <-- ReplayCounterProofs

`SlotStore`, `AtomicPacket` and `RecentNonces` are abstract: they say what a
component promises.  `FileStore`, `PacketLink` and `NonceCache` are the code,
and each states as a property that it implements its abstract specification.
Two modules compose others.  `AntiReplay` puts both tables of `security.c` in
one receiver.  `HsmPair` joins two devices; its transfer line *is* `PacketLine`,
the steps `AtomicPacket` is made of (they are conjuncts of its own actions),
and its files change one slot per step or as a cut `write_file` leaves them,
which is what `SlotStore` allows.  The assumption of one level is what the
level below is checked for.

The devices are cut in two ways that overlap in the handlers: `CommandLoop` is
everything one device does, with the other device and the files reduced to
outcomes; `HsmPair` is what the transfer commands of two devices do to each
other's files, with the PIN check left to `CommandLoop`.

Next to each definition that has one stand its *mutants*: the same definition
with a plausible mistake.  They are used by nothing in the specifications.
`PROJECT.json` says which property each of them breaks.

### FileStore (`filesystem.c`, `simple_flash.c`)

`fat` is `FILE_ALLOCATION_TABLE`, `fatFlash` the page at `_FLASH_FAT_START`,
`flash` the pages of the file regions.  `write_file` is a sequence of driver
calls and each call is one action: `WriteFile` (the entry changes in RAM),
`EraseFat`, `ProgramFat`, `ErasePage` once per page, `ProgramFile`.  Each flash
command has a second outcome, `CommandFails`, when `FlashMayFail`.  `Reset` may come
before any of them and, for the two program commands, in the middle; it ends in
`init_fs`.

- Programming follows what flash does: only an erased cell takes a new value;
  over anything else the AND of both remains (`Garbage`, `BadEntry`).
- A cut or failed program command leaves a prefix.  The driver programs 64-bit
  words in ascending order; the last word of a FAT entry holds length and
  address, so an entry without it has the address -1 and `read_file` rejects it
  exactly as it rejects an erased one.  A page of a file may be torn inside.
- A cut or failed erase leaves the page as it was.  (A cut one may also have
  been completed: that is a reset one step later.)  Intermediate cell levels of
  a physically interrupted erase are not modelled.
- Lengths and addresses are counted in pages; the header of a file is in its
  first page.
- `write_file` is handed an object and trusts its length: the check in
  `create_file` is commented out, and neither the object that a nameless
  `write` leaves uninitialized nor a damaged file of the neighbor has passed
  through `create_file`.  `Fits` are the objects no longer than a region.  Any
  other is programmed on into the next regions (`Reached`), as long as the
  stack holds `flash_simple_write`'s copy of it (at most `MaxCopy` pages);
  beyond that the copy is a hard fault after the slot has been erased
  (`StackFault`).  `SparePages` are the pages between the regions and the FAT
  page; `SizeAssumption` says that no copy the stack has room for is longer
  than they are, past one region.  (In the firmware they are 96 pages, the
  longest 16-bit length is 65 pages.)
- Slot numbers are those of the table.  `write_file` does not check them (the
  TODO at `filesystem.c:101`): an entry beyond the table is a write past
  `FILE_ALLOCATION_TABLE` in RAM, and after that nothing is defined.
- `acked`, `faulted`, `overrun`, `before` and `fatCut` are history variables:
  what each slot's last write stored, where a command of it has failed, which
  slots an object that does not fit has been programmed over since, what the
  slot being written held, and whether a reset has cut `store_fat`.

`SlotStore` is the contract without flash: `Begin`, `Finish` and `Cut` of one
write at a time.  A cut leaves in the written slot one of `Left`: what it held,
nothing, something damaged, or a whole file under the UUID of the write, which
may be an older one, since the entry is stored before the pages are erased.
`MayDamage` is empty for an object that fits.

### TamperLatch (`tamper_latch.c`, `tamper_nmi.c`, `tamper_lock.c`, `HSM.c`)

`rec` is the record, four bytes.  The main thread goes from `reset` through
`init` to the loop; `ClearByte` and `TripByte` are one scratchpad write each.
`EnterNMI` is enabled at every point after and before the arming: other NMI
causes than the brownout trip the latch too, and they need no arming.  The
handler never returns, so reading the record is one step for whoever reads it.
`Reset` keeps the record; `BackupLost` replaces it by any word of `Word`.  The
checksum is `magic ^ flag ^ ~flag ^ 0x5A`, which is 0 for every flag byte
(`ChecksumIsZero` in `MCTamperLatch` has TLC evaluate that).

### Trng, CommandLoop (`simple_trng.c`, `simple_timer.c`, `HSM.c`, `commands.c`)

`Trng` is the peripheral and its driver.  The peripheral executes the command
in its CMD field (`Execute`), captures words (`Capture`) and may stop in ERR
(`HealthFail`); these steps are external, known from how the driver uses them.
Each register access of the driver that can be told apart from outside is an
action: sending a command with the clearing of its flag, reading a word,
clearing CAPTURE_RDY.  A word is known by its quality only: `poor` (before the
tests, or the first after them), `fresh`, or `read` already.

`CommandLoop` adds the main loop.  `BootTrng` and `BootTimer` are the rest of
`init`, which stops for ever when a peripheral failed.  `Top` clears `uart_buf`,
`ReadCommand` reads a packet and dispatches it: a packet too short to hold a
PIN leaves what was in the buffer, since no handler looks at the length.
`CheckPin`, `trng_generate` and `ComparePin` are `check_pin`; `StartTimer`,
`TimerZero` and `RefusePin` are the wait and the refusal of every handler.  The
handlers follow, each with all its ways out; what files, permissions and the
neighbor decide is a choice.  `Reset` comes between any two steps and takes the
TRNG, the timer and the RAM with it.

A file object that is not as `create_file` makes it may have a name without an
end and any length: what a cut or failed write leaves (`damaged`), what the
neighbor sends of its own, and the object of a nameless `write`.  Its copying
may end, or run off the stack (`Fault`): in `list` before the PIN is looked at
(`strcpy`, `commands.c:45`), in `read` (`commands.c:111`), in `listen`, and in
`flash_simple_write` when it is stored (`StoreDamaged`).

- `sent`, `did` and `waited` are history variables: the PIN of the packet being
  handled, what the handler has done to flash, to the neighbor or told the
  host, and how much of the timer has run since the last refusal.
- The latch, the file system and the bytes of a packet are left out.

### PacketLink, PacketLine, AtomicPacket (`host_messaging.c`, `simple_uart.c`)

Both ends of a UART line run the same code.  A channel is a sequence of tokens:
a header (4 bytes), an ACK (a header too) or a data byte.  `BeginWrite`,
`HeaderReply`, `SendByte`, `BlockReply` and `LastReply` are `write_packet` with
`write_bytes` and `read_ack` in it; `BeginRead`, `ReadHeader` and `ReadByte` are
`read_packet` with `read_bytes`; `Discard` is the loop of `read_header` that
skips to the next `MSG_MAGIC`.  The reader's ACK of a block is sent when the
block's last byte has been read: the code sends it at the start of the loop's
next turn, with nothing in between.

- A header sent to an end that is in no call may be lost (`MayOverrun`): the
  UART has no FIFO and the end is busy with something else.
- `Restart` is the restart of an end that is not writing.

`PacketLine` has no bytes: a packet on offer is *open*, and then *taken*,
*passed* over by a read that gave up, or *void* because the other end's write
took its header for an answer.  `AtomicPacket` makes calls of it, with what they
return.  `state` and `took` in `PacketLink` are history variables that carry the
refinement.

### HsmPair (`commands.c`)

Two devices with their files, and in each the command its host has asked for.
`receive` and `interrogate` are `SendRequest`, `RequestWritten`, `TakeResponse`;
`listen` is `Listen`, `TakeRequest`, `SendAnswer`, `AnswerWritten`; `write` is
`HostWrite`.  A response is told from a request by its opcode only (`Accepts`),
results of `write_packet` and `read_packet` are ignored as in the code, and the
packets that do not fit the reader's buffer are those of `TooLong`.

- A write to flash ends (`Stored`) or is cut by a restart (`Cut`): then its
  slot holds what it held, nothing, the new file, or something `Damaged` that
  `read_file` still returns, and the other slots may be gone.
- A damaged file is served, listed and stored like any other.  Its name may
  lack a terminator and its length field may be erased, with which `listen`
  (`ListFaults`) or the `receive` that stores it end in a fault (`"fault"`),
  that is, until the next restart.
- `Restart` is a restart of a device that is not writing to the line.
- `seen` is a history variable: what the neighbor's files have stood for in
  every state since the command began.  `upset` is another: whether a restart
  has cut a write, and whether one has come since the last request.
- `list` and `read` change no state, nor does a command refused for its PIN:
  they are in `CommandLoop`.  No transfer command consults a permission.
- Hosts send slots of the table.  The uninitialized object of a nameless
  `write` is taken to have a length that fits; what a longer one does is in
  `FileStore` and `CommandLoop`.

### Permissions, PinCheck (`secrets_to_c_header.py`, `gen_secrets.py`, `security.c`)

Functions, no state.  `DeploymentGroups` is what `gen_secrets` keeps of its
arguments; `Deserialize`, `Validated` and `GlobalPermissions` are the build
script from its text to the table in `secrets.h`; `ValidatePermission` is the
firmware's search.  `HsmPair` uses them for `write`, and states `OnlyHostFiles`
in terms of the list, not of the table.  `PinCheck` has both normalisations of
a PIN, character by character, and `check_pin`; the GMAC is a function given
from outside.  Numbers and letters are modelled after parsing: group numbers
are naturals (`-1` makes a header that does not compile).

### NonceCache, RecentNonces, ReplayCounter, AntiReplay (`security.c`)

The two tables with their search, first-free insertion and round-robin
replacement.  Any caller may ask for any sender, nonce or counter in any order.
A sender and a nonce are one value in `NonceCache`, as the code never looks at
one without the other; nonces of a wrong length are refused without a look at
the table and are left out.  The counter's width is the constant `CtrMod` (2^32
in the code).  `times` counts how often each message was accepted since its
sender was last entered.  `AntiReplay` is both: the firmware keeps them side by
side and a reset clears them together.

## 3. The runs

| Run | Instance | What it shows |
|---|---|---|
| `store` | 2 slots of 2 pages, objects of 2 and 3 pages, 2 UUIDs, no flash errors | `AckedUnlessFatCut`, `FatCoherent`, `ZeroMeansStored`, `WritesStayInSlot`; `write_file` implements `SlotStore` |
| `store_faults` | 2 slots of 2 pages, objects of 1 and 2 pages, 1 UUID, failing flash commands | `AckedOrLost`, `WritesStayInSlot` |
| `store_zero` | as `store_faults` | finding: `write_file` returns 0 without a FAT entry on flash |
| `latch` | 36 initial words | `TripKept`, `NoCommandAfterTrip`, `TrippedLocks`, `UntrippedServes` |
| `latch_torn` | the same | finding: a torn trip record is rewritten as clear |
| `link` | blocks of 2 bytes, packets of 0, 2 and 5 bytes, buffers of 2 and 5 bytes, restarts, overruns | `ImplementsAtomicPacket`, `ConfirmedIsRead`, `NoStaleAck`, `BlocksInStep`, `Completes` |
| `link_block` | the same without restarts and overruns | finding: two blocks under way at once |
| `link_long` | the same | finding: both ends wait after a packet that is too long |
| `pair` | 2 devices, 2 slots, 2 files in 2 of 3 groups, requests from one device, restarts, cut writes | `AnswerIsPeers`, `OnlyHostFiles`, `ExchangeEnds` |
| `pair_cross` | the same, requests from both devices, no restarts | finding: a request taken for a response |
| `commands` | one device, every command, PINs right, wrong, malformed and absent, resets | `OnlyOwnPin`, `FreshRandom`, `GuessesApart`, `Serves` |
| `tables` | 4 pairs for 2 nonce entries; 3 senders for 2 counters modulo 3; restarts | the cache implements `RecentNonces`; `AcceptedOnce`, `RefusedOnlyStale` |

Why the bounds are enough to be interesting:

- *store*: two pages per region make off-by-one erases hit a neighbor, two
  slots make a FAT page that is cut half programmed, objects of one and two
  pages leave old parts behind, and the object of three pages ends in the next
  region or, from the last slot, in the one spare page, or faults.  Nothing is
  bounded but the instance: the state space is finite and explored whole.  The
  UUIDs of `store` are symmetric: no property tells one from another, and all
  of them are safety properties.  The theorems cover every other size.
- *latch*: `MCWord` combines right and wrong values of every byte, readable and
  unreadable records, among them those one byte away from a trip record.
- *link*: 0, exactly one block, and two blocks and a byte are the three cases
  the loops distinguish; buffers of 2 bytes refuse the longest packet.
- *pair*: two slots make a list longer than one entry, which is what exceeds
  the buffer of `listen`; one file is of a group that one device may write, by
  the second entry of its list and after the reduction modulo `GroupMod` (the
  number 5 is group 1), the other of a group nobody may write.  In `pair` only
  one host sends requests, because with both AnswerIsPeers is false.  The
  theorems of `HsmPairProofs` cover every number of slots and files.
- *commands*: nothing is bounded; the states of the TRNG, the timer, the buffer
  and the loop are few and are all explored.
- *tables*: more pairs and senders than entries, so the indexes wrap and pairs
  and senders return after they were forgotten; a counter that wraps at once.

Deadlock is checked except for `PacketLink` and `HsmPair`, where both ends may
really wait for a packet: blocking reads have no timeout.

Fairness.  `TamperLatch`: weak fairness of the processor's next step; a packet
need not arrive, resets need not stop (the two liveness properties assume they
do, and say so).  `UntrippedServes` is about unreadable records: a complete trip
record is of course allowed to lock.  `PacketLink`: weak fairness of each end
*inside* a call; no fairness makes an end start a call.  `CommandLoop`: weak
fairness of the processor, of the TRNG's commands and captures and of the
timer, which all run on clocks; and of host and neighbor once they are in an
exchange, without which a blocking read waits for ever.  Nobody has to send a
command.  `Serves` assumes that resets stop and that the TRNG's health checks
hold: after a failed one the driver polls for ever; and it makes one exception,
the hard fault of a device that was given a damaged file, or an object of any
length, to copy.  `HsmPair`: weak fairness of
each device inside a call; a device that is already reading then takes the
packet its neighbor offers, which is what `Completes` of `PacketLink` shows.

### What the violated runs show

- `latch_torn` - `init` calls `tamper_latch_init_if_needed` before the first
  check, so the rule of `tamper_latch_is_tripped` that an unreadable record
  counts as tripped can never apply at boot: the record has just been rewritten
  as clear.  A trip record cut by the power failure that caused it, after its
  flag byte, is such a record.
- `store_zero` - `write_file` returns what its last flash command returned.
- `link_block` - `write_bytes` tests `read_ack(...) < 0`, and `read_ack`
  returns the positive `MSG_NO_ACK`.
- `link_long` - the header of a packet that is too long is acknowledged before
  its length is looked at; the writer sends its block and waits.
- `pair_cross` - requests and responses have the same opcodes; with both hosts
  sending requests, one device takes the request it should answer for the
  response it waits for, and a `receive` stores it.

Seen while reading, and not made into runs: `write` ignores that `create_file`
refuses an empty name and stores an uninitialized file object
(`commands.c:149`); `create_file` copies as many bytes as the host says into a
`file_t` on `write`'s stack (`filesystem.c:85`); `write_file` takes any slot
(`filesystem.c:101`); `listen` reports success when its answer was refused
(`commands.c:319`); a file whose length field is erased, as a cut write leaves
it, makes `write_file` ask for more than 65535 bytes (`filesystem.c:104`), which
`flash_simple_write` has no room for on its stack (`simple_flash.c:86`), and
`read` copy 65535 (`commands.c:112`); one whose name has no terminator is copied
with `strcpy` (`commands.c:45`);
`read_packet` documents `len` as a result and never assigns it; `MSG_NO_ACK` and
the other results are positive where `host_messaging.h` promises negative
values; `gen_secrets.py:99` reads group numbers in base 10 and
`secrets_to_c_header.py:48` in base 16, so that the commands the Makefile gives
as an example (`GROUPS=1234`, then `PERMS='1234=RWC'`) end in "Permission group
... is not in deployment groups"; an entry of group 0 passes the script and is
skipped by `validate_permission`.

## 4. The proofs

TLAPS checks these for every value of the constants that satisfies the named
assumptions (`SizeAssumption`, `ValueAssumption`, `WordAssumption`,
`TrngAssumption`, `NonceAssumption`, `ReplayAssumption`,
`PermissionsAssumption`, `PairAssumption`, `MessageAssumption`,
`EndAssumption`, `LinkAssumption`), which TLC evaluates for the instances above.

**FileStoreProofs.**  `TypeCorrect`, `Inductive`, and from them `Acked`,
`NeverLost`, `Coherent`, `InSlot`, `ZeroStored` and the refinement `Refines`.
`AckedOrLost` is not inductive: it says nothing about a slot while its entry is
missing, nor about the flash copy of the FAT that a reset turns into the only
one.  `FileStore!IInv` adds: the pages of an acknowledged file stay complete
whether or not an entry points at them, and *both* copies of the FAT have its
entry or none (`SoundKept`); every entry of either copy points at its own
region (`EntriesInPlace`), which with `RegionsDisjoint` keeps one slot's erases
off the others' pages; the running write has its entry in RAM and its slot
unacknowledged (`JobOpen`); its erases have left erased cells (`CleanJob`); and,
without flash errors, where the copies may differ (`NoErrors`).  The lemmas on
`StartPage`, `FatProgrammed` and `FileProgrammed` say what the helpers preserve;
each action then needs few of them.  No length is assumed to fit: `JobFacts`
derives from the layout that an object that does reaches no other slot, and
`ProgrammingElsewhere` that no object touches a slot it does not reach.
`InSlot` is what remains true of all lengths, with failed commands too: the
erases stay in the slot, and only programming an object that does not fit can
change a page elsewhere, in a later slot.  `Acked` and `NeverLost` except the
slots in `overrun`.  For `Refines`, `OtherView` shows that such programming can
only damage what another slot holds, never turn it into another file, and
`before`, which `NoErrors` ties to the flash copy of the entry until the FAT is
erased, gives what a cut may leave.  `NeverLost`, `Coherent`, `ZeroStored` and
`Refines` assume `~ FlashMayFail`.

**TamperLatchProofs.**  `Types`, `TripStays` and `NoCommand`, from
`IInv == TypeOK /\ TripKept /\ TripUnderway`: the handler's half-written record
has to be known byte by byte for its last byte to complete it.

**CommandLoopProofs.**  `TypeCorrect`, `OwnPin`, `Fresh` and `Apart`.  `IInv`
adds to them what ties the parts to each other: a buffer that is clean when a
packet is read (`PinKnown`); a timer that runs only inside the wait, and has run
in full when the wait can end (`WaitKnown`); and, for `FreshRandom`, that the
command in the TRNG is always the one the driver waits for, so that no result of
a self-test changes after it was checked, and that CAPTURE_RDY announces an
unread word except between a read and its clearing (`TrngKnown`).  Steps of the
driver and the TRNG leave the loop alone and the loop, but for `CheckPin` and
the reset, leaves them alone, so each conjunct is proved for one kind of step.

**NonceCacheProofs.**  `NonceTypes`, and `Window`: `nonce_accept` implements
`RecentNonces`, for any table size and any pairs.  `NonceIInv` says that the
table is filled from the front and that the index moves only when it is full.
The view of the table as a sequence in order of acceptance is defined by the
position of each entry relative to the index, without a remainder, so that the
overwriting of the oldest entry is `Append(Tail(..), ..)` by arithmetic the
prover has.

**ReplayCounterProofs.**  `Inductive`, `Types`, `Once` and `OnlyStale`, for any number
of senders and entries and any counter width.  The strengthening says that a
sender has one entry (`OneEntry`), that no accepted counter exceeds the entry
(`HighestKept`) and that the entry's counter was itself accepted
(`HighestAccepted`).  `BothTables` carries these and `Window` over to
`AntiReplay`, the specification the run `tables` checks: what a call does to one
table is a stutter of the other, and the reset is the reset of each.

**AccessProofs.**  `TableDecidesAsList`: a table built from a list that passed
the script grants what the list says, and nothing for group 0.  An entry of the
list is found at its own place in the table, a padding entry never matches, and
`Validated` leaves one match, so that being the first one does not matter.
`DeploymentOnly` and `OrderFree` follow.  `FailsClosed` and `PinExact`: over
tags without collisions (a hypothesis of the theorem), `check_pin` accepts
exactly the built PIN in either case of its letters; the argument is that the
two normalisations agree on everything the script accepts.

**HsmPairProofs.**  For any slots, files, groups and permission lists that pass
the script: `Types`; `Stores`, that only files some device was permitted to
write, or damaged ones, are ever stored; and `OwnAnswers`, that an accepted
answer is what the neighbor had during this command.  `Base` adds to the types
what each device is doing (`Roles`).  `StoreInv` adds that a file *in an answer
under way* is one the sender could store.  `AnswerInv` adds `SameCommand`: the
device whose request was read is answered in the same command, with something
in `seen`.  It is this conjunct that needs `OneRequester`, a hypothesis of
`Stores` and `OwnAnswers`: with two requesters the run `pair_cross` refutes it.
`Stores` also assumes that hosts name their files (`Named = File`), because
`write` stores anything for a file without a name.  The step from the table on
the device to the list it was built from is `TableDecidesAsList`.

**PacketLinkProofs.**  For any packets, sizes, block length and buffers, with
readers that restart and headers that are lost: `Types`, `NoAckLeftBehind`,
`InStepByBlocks`, the refinement `Refines`, and `Confirmed`.  None of the
properties is inductive, since each says little about what is still in the two
channels.  `PacketLink!IInv` says of both ends and both channels together that
the line is in one of seven conditions: nobody writes (`Quiet`); a header is on
offer, or was lost (`Offered`); both ends have written one (`Crossed`); the
packet is being read (`ReadingFrom`); the other end has returned it (`Taken`),
or has given it up (`Passed`); or its header was taken for an answer
(`Voided`).  Each step leads from one condition to another, and the proof has a
lemma for each step in each condition it can be taken in.  The heart is
`InStep`, a part of `ReadingFrom`: what was sent is what was stored and what is
under way, in order, and the writer is never past the end of a block that has
not been read and acknowledged.  It makes the two countings of blocks agree
without either end knowing the other's: `BlocksInStep`, the positive side of
the findings `link_block` and `link_long`, which are thus about packets that
nobody is reading.  The step simulation reads off the conditions when a header
is taken, an answer is an ACK and a read is complete.  `Confirmed` uses only
that `PacketLink` implements `AtomicPacket` and is proved from the contract:
a packet that was taken is still the last one read when its write returns.

Only model-checked: the liveness properties (`TrippedLocks`, `UntrippedServes`,
`Completes`, `Serves`, `ExchangeEnds`), which are out of the prover's reach.
The safety properties of all passing runs are proved.

## 5. Not modelled

- `gmac.c`: AES-GMAC is a function given from outside (`PinCheck`).
- The recovery of the TRNG from a health check that fails at run time: there is
  none in the code (`simple_trng.c:88`).  `trng_get_bytes` has no caller.
- Slots beyond the table (`filesystem.c:101`), and a named `write` with a length
  above `MAX_CONTENTS_SIZE`, which overruns the `file_t` on `write`'s stack in
  `create_file` (`filesystem.c:85`): nothing is defined after either.
- An overrun on the UART is a header lost whole, at an end that is in no call.
  A UART without a FIFO keeps one byte of it, and an end in its own send loop is
  not reading either.
- Restarts of a *writer* to a line.  The reader goes on counting bytes and the
  ACKs of the two ends stay out of step from then on: with one such restart
  TLC finds later packets spliced and confirmed unread, so no promise is left
  that could be stated.  Neither `PacketLink` nor `HsmPair` has them.
- Payload bytes that equal `MSG_MAGIC` and are met while discarding.
- `DEBUG_MSG` packets and `write_hex`, which are sent without waiting for
  anything.
- `simple_crypto.c`: only compiled into an example that is off by default.
- The keys of `gen_secrets.py`, startup code, board configuration, wolfSSL: no
  behaviour of the device, generated, or vendored.

## 6. Plan

1. Done: every component with behaviour of its own is modelled and checked, and
   has the safety properties its runs check proved.
2. Next in the proofs: what `RecentNonces` promises, in terms of messages (a
   pair returns only after as many others as the table has entries); and the
   seam between `SlotStore` and the files of `HsmPair`, which so far rests on
   reading the two side by side.
3. Next in the models: payload bytes equal to `MSG_MAGIC`; restarts of a writer
   and health-check recovery when the firmware handles them.
